---- MODULE Spec2Model ----
(***************************************************************************)
(* Model of the fishtank game template: the particle system (useParticles),*)
(* the screen shake (useScreenShake), the frame loop (useGameLoop) and the *)
(* lifecycle state machine (useGameState) as the example games drive them, *)
(* the frame callbacks of the space shooter, brick breaker and flappy bird,*)
(* and the pointer flags of useMouse.                                      *)
(*                                                                         *)
(* JavaScript numbers are modelled as exact rationals [n |-> numerator,    *)
(* d |-> denominator] in lowest terms with d > 0, so that 0.98, 0.9, 0.5   *)
(* and deltaTime / 1000 are computed as the code computes them; NaN and    *)
(* the infinities are the records with d = 0.                              *)
(***************************************************************************)
EXTENDS Integers, Sequences, FiniteSets, TLC

VARIABLES
    particles,  \* useParticles: particles.current, a sequence of Particle records
    shakeState, \* useScreenShake: state.current, a ShakeState record
    state,      \* useGameState: state, as of the latest render
    score,      \* useGameState: score, as of the latest render
    result,     \* useGameState: result, as of the latest render
    highScore,  \* useGameState: highScore, as of the latest render
    pending,    \* state updates queued by setState calls and not yet rendered
    storage,    \* localStorage 'highScore'
    posted,     \* messages posted to the parent frame so far, in order
    called,     \* lifecycle operations called so far, in order
    loopLive,   \* useGameLoop: an animation frame is requested and not cancelled
    player,     \* space shooter: player.current
    world,      \* space shooter: bullets, enemies, powerups, timers, difficulty,
                \* and the counter of generateId
    breaker,    \* brick breaker: paddle, balls, bricks, lives, level, combo
    pointer,    \* useMouse: mouse state, queued updaters, clearing timeout
    game,       \* the Game component the page shows: one of the three
                \* examples or one of the two templates
    template,   \* template game: player, targets, lastSpawn, targetIdCounter
    ctx,        \* the 2D context render(ctx) and apply(ctx) are called with
                \* outside a game frame: globalAlpha, fillStyle, translation
    raf,        \* useGameLoop and the browser: the effect's closures, the
                \* requested animation frames, the clock
    flappy,     \* flappy bird: bird, pipes, lastPipeSpawn, justJumped and the
                \* record of its frames
    last,       \* the call made by the latest step (operation name and arguments)
    steps       \* number of calls made so far (bounds the exploration)

gameVars ==
    <<state, score, result, highScore, pending, storage, posted, called, loopLive,
      player, world, breaker, pointer, game, template>>

vars == <<particles, shakeState, gameVars, ctx, raf, flappy, last, steps>>

(***************************************************************************)
(* Bounds of the exploration.                                              *)
(***************************************************************************)
MaxSteps == 3
MaxShakeSteps == 4
MaxBrickSteps == 4
MaxMouseSteps == 6
MaxGameSteps == 6

(***************************************************************************)
(* Numbers.                                                                *)
(***************************************************************************)
Abs(n) == IF n < 0 THEN -n ELSE n

RECURSIVE GCD(_, _)
GCD(a, b) == IF b = 0 THEN a ELSE GCD(b, a % b)

Q(n, d) ==
    LET g == GCD(Abs(n), Abs(d))
        s == IF d < 0 THEN -1 ELSE 1
    IN  [n |-> (s * n) \div g, d |-> (s * d) \div g]

Z(n) == [n |-> n, d |-> 1]

Zero == Z(0)
One == Z(1)

\* NaN, Infinity (-Infinity is [n |-> -1, d |-> 0]) and the value undefined,
\* which arithmetic and comparisons convert to NaN
NaN == [n |-> 0, d |-> 0]
Infinity == [n |-> 1, d |-> 0]
Undefined == [n |-> 0, d |-> -1]

Finite(a) == a.d > 0
ToNumber(a) == IF a.d < 0 THEN NaN ELSE a
Sign(a) == IF a.n > 0 THEN 1 ELSE IF a.n < 0 THEN -1 ELSE 0

QNeg(a) == IF a.d < 0 THEN NaN ELSE [n |-> -a.n, d |-> a.d]

QAdd(a, b) ==
    IF a.d > 0 /\ b.d > 0
    THEN LET g == GCD(a.d, b.d)
             l == (a.d \div g) * b.d
         IN  Q(a.n * (l \div a.d) + b.n * (l \div b.d), l)
    ELSE LET x == ToNumber(a)
             y == ToNumber(b)
         IN  IF x = NaN \/ y = NaN THEN NaN
             ELSE IF x.d = 0 /\ y.d = 0 THEN (IF x = y THEN x ELSE NaN)
             ELSE IF x.d = 0 THEN x ELSE y

QSub(a, b) == QAdd(a, QNeg(b))

QMul(a, b) ==
    IF a.d > 0 /\ b.d > 0
    THEN LET g1 == GCD(Abs(a.n), b.d)
             g2 == GCD(Abs(b.n), a.d)
         IN  Q((a.n \div g1) * (b.n \div g2), (a.d \div g2) * (b.d \div g1))
    ELSE [n |-> Sign(ToNumber(a)) * Sign(ToNumber(b)), d |-> 0]

\* a / b: a finite number over 0 is an infinity, 0 / 0 is NaN
QDiv(a, b) ==
    IF a.d > 0 /\ b.d > 0
    THEN IF b.n = 0 THEN [n |-> Sign(a), d |-> 0]
         ELSE QMul(a, IF b.n < 0 THEN [n |-> -b.d, d |-> -b.n] ELSE [n |-> b.d, d |-> b.n])
    ELSE LET x == ToNumber(a)
             y == ToNumber(b)
         IN  IF x = NaN \/ y = NaN \/ (x.d = 0 /\ y.d = 0) THEN NaN
             ELSE IF x.d = 0 THEN [n |-> Sign(x) * (IF y.n < 0 THEN -1 ELSE 1), d |-> 0]
             ELSE Zero

\* a <= b and a < b: false when either side is NaN
QLe(a, b) ==
    IF a.d > 0 /\ b.d > 0 THEN a.n * b.d <= b.n * a.d
    ELSE LET x == ToNumber(a)
             y == ToNumber(b)
         IN  /\ x # NaN
             /\ y # NaN
             /\ IF x.d = 0 /\ y.d = 0 THEN x.n <= y.n
                ELSE IF x.d = 0 THEN x.n < 0 ELSE y.n > 0

QLt(a, b) ==
    IF a.d > 0 /\ b.d > 0 THEN a.n * b.d < b.n * a.d
    ELSE LET x == ToNumber(a)
             y == ToNumber(b)
         IN  /\ x # NaN
             /\ y # NaN
             /\ IF x.d = 0 /\ y.d = 0 THEN x.n < y.n
                ELSE IF x.d = 0 THEN x.n < 0 ELSE y.n > 0

\* Math.min and Math.max: NaN when either argument is
QMin(a, b) ==
    IF a.d > 0 /\ b.d > 0 THEN (IF QLe(a, b) THEN a ELSE b)
    ELSE IF ToNumber(a) = NaN \/ ToNumber(b) = NaN THEN NaN
    ELSE IF QLe(a, b) THEN a ELSE b

QMax(a, b) ==
    IF a.d > 0 /\ b.d > 0 THEN (IF QLe(a, b) THEN b ELSE a)
    ELSE IF ToNumber(a) = NaN \/ ToNumber(b) = NaN THEN NaN
    ELSE IF QLe(a, b) THEN b ELSE a

QAbs(a) == IF a.d < 0 THEN NaN ELSE [n |-> Abs(a.n), d |-> a.d]

\* Math.floor of a finite number
Floor(a) == a.n \div a.d

\* the ?? operator
Coalesce(v, dflt) == IF v = Undefined THEN dflt ELSE v

\* Whole numbers of any size, for the squares of rationals: the sequence of
\* the digits in base 10000, the lowest first and the highest not 0.
\* Carried(c) is the number with the coefficients c of the powers of 10000
\* (naturals below 2 ^ 31, the lowest first): the coefficients are split in
\* their three digits, the sums of at most 20019 are split again, and the
\* carries of 1 that are left run through the digits 9999 above them
Carried(c) ==
    CHOOSE r \in
        { SubSeq(d, 1, Cardinality({k \in DOMAIN d : \E j \in DOMAIN d : k <= j /\ d[j] # 0}))
          : d \in
            { << >> \o [k \in DOMAIN p2 |->
                          (p2[k] + (IF \E j \in 1 .. k - 1 :
                                           /\ p2[j] >= 10000
                                           /\ \A i \in j + 1 .. k - 1 : p2[i] = 9999
                                    THEN 1 ELSE 0)) % 10000]
              : p2 \in
                { << >> \o [k \in DOMAIN p1 |->
                              (p1[k] % 10000) + (IF k > 1 THEN p1[k - 1] \div 10000 ELSE 0)]
                  : p1 \in
                    { << >> \o [k \in 1 .. Len(c) + 2 |->
                                  (IF k <= Len(c) THEN c[k] % 10000 ELSE 0)
                                  + (IF 1 < k /\ k <= Len(c) + 1
                                     THEN (c[k - 1] \div 10000) % 10000 ELSE 0)
                                  + (IF 2 < k THEN c[k - 2] \div 100000000 ELSE 0)] } } } } :
            TRUE

Big(n) == Carried(<<n>>)

BigAdd(a, b) ==
    CHOOSE r \in
        { Carried(<< >> \o [k \in 1 .. (IF Len(x) < Len(y) THEN Len(y) ELSE Len(x)) |->
                              (IF k <= Len(x) THEN x[k] ELSE 0)
                              + (IF k <= Len(y) THEN y[k] ELSE 0)])
          : x \in {a}, y \in {b} } : TRUE

\* the coefficient of 10000 ^ (k - 1) in a * b: the sum of a[i] * b[k + 1 - i]
\* over the digits 1 .. i of a
RECURSIVE Dot(_, _, _, _)
Dot(a, b, k, i) ==
    IF i = 0 THEN 0
    ELSE (IF k + 1 - i \in DOMAIN b THEN a[i] * b[k + 1 - i] ELSE 0) + Dot(a, b, k, i - 1)

\* for numbers of at most 20 digits each (a coefficient is below 2 ^ 31)
BigMul(a, b) ==
    CHOOSE r \in
        { IF x = << >> \/ y = << >> THEN << >>
          ELSE Carried(<< >> \o [k \in 1 .. Len(x) + Len(y) - 1 |-> Dot(x, y, k, Len(x))])
          : x \in {a}, y \in {b} } : TRUE

BigSquare(a) == CHOOSE r \in { BigMul(x, x) : x \in {a} } : TRUE

BigLe(a, b) ==
    \E x \in {a}, y \in {b} :
        IF Len(x) # Len(y) THEN Len(x) < Len(y)
        ELSE \E differ \in {{i \in 1 .. Len(x) : x[i] # y[i]}} :
                \/ differ = {}
                \/ \E top \in differ :
                      /\ \A j \in differ : j <= top
                      /\ x[top] < y[top]

\* a * a + b * b as numer / denom for finite a and b
SumOfSquares(a, b) ==
    LET g == GCD(a.d, b.d)
    IN  [numer |-> BigAdd(BigSquare(BigMul(Big(Abs(a.n)), Big(b.d \div g))),
                          BigSquare(BigMul(Big(Abs(b.n)), Big(a.d \div g)))),
         denom |-> BigSquare(BigMul(Big(a.d), Big(b.d \div g)))]

\* Math.sqrt(a * a + b * b) <= r and < r, for finite a and b and r >= 0
HypotLe(a, b, r) ==
    LET h == SumOfSquares(a, b)
    IN  BigLe(BigMul(h.numer, BigSquare(Big(r.d))), BigMul(BigSquare(Big(r.n)), h.denom))

HypotLt(a, b, r) ==
    LET h == SumOfSquares(a, b)
    IN  ~BigLe(BigMul(BigSquare(Big(r.n)), h.denom), BigMul(h.numer, BigSquare(Big(r.d))))

\* n halvings of the range lo .. hi that keep in it the largest m with
\* (2 * m - 1) ^ 2 * den <= num
RECURSIVE Narrowed(_, _, _, _, _)
Narrowed(num, den, lo, hi, n) ==
    IF lo = hi \/ n = 0 THEN <<lo, hi>>
    ELSE CHOOSE r \in
           { Narrowed(num, den, next[1], next[2], n - 1)
             : next \in
               { IF BigLe(BigMul(BigSquare(BigAdd(Big(mid), Big(mid - 1))), den), num)
                 THEN <<mid, hi>> ELSE <<lo, mid - 1>>
                 : mid \in {lo + (hi - lo + 1) \div 2} } } : TRUE

\* the largest m of lo .. hi with (2 * m - 1) ^ 2 * den <= num, lo if none,
\* for hi - lo < 2 ^ 32: four rounds of eight halvings
HalfRoot(num, den, lo, hi) ==
    CHOOSE m \in
        { r4[1]
          : r4 \in
            { Narrowed(num, den, r3[1], r3[2], 8)
              : r3 \in
                { Narrowed(num, den, r2[1], r2[2], 8)
                  : r2 \in
                    { Narrowed(num, den, r1[1], r1[2], 8)
                      : r1 \in {Narrowed(num, den, lo, hi, 8)} } } } } : TRUE

\* len * a / Math.sqrt(a * a + b * b) for finite numbers and |len| < 2000:
\* the number itself when it is rational (a or b is 0), and the millionth
\* nearest to it otherwise (the rationals have no square roots): the m with
\* (2 * m - 1) / 2 <= 1000000 * |len| * |a| / sqrt(a * a + b * b)
Along(a, b, len) ==
    IF a.n = 0 /\ b.n = 0 THEN NaN
    ELSE IF a.n = 0 THEN Zero
    ELSE IF b.n = 0 THEN QMul(Z(Sign(a)), len)
    ELSE LET h == SumOfSquares(a, b)
             g == GCD(a.d, b.d)
             x == BigMul(Big(Abs(a.n)), Big(b.d \div g))
             m == CHOOSE r \in
                    { HalfRoot(num, den, 0, (Abs(len.n) \div len.d + 1) * 1000000)
                      : num \in { BigMul(BigSquare(BigMul(Big(2000000), Big(Abs(len.n)))),
                                         BigSquare(x)) },
                        den \in { BigMul(BigSquare(Big(len.d)), h.numer) } } : TRUE
         IN  Q(Sign(a) * Sign(len) * m, 1000000)

(***************************************************************************)
(* Math.random() returns any number of [0, 1).  The draws of one call of   *)
(* an operation are taken from a cycle of seven values, which has a value  *)
(* on each side of every threshold the games compare a draw with (0.1,     *)
(* 0.3, 1/2, 2/3, 3/4); the seed picks where in the cycle the call starts  *)
(* and how far it steps from one draw to the next (0 to 6 places), so that *)
(* every ordered pair of the seven values is the pair of two successive    *)
(* draws under some seed.                                                  *)
(***************************************************************************)
RandTable == <<Zero, Q(1, 2), Q(3, 4), Q(1, 4), Q(1, 16), Q(7, 8), Q(3, 8)>>

\* the seeds the calls of the shake are explored with: a seed s starts at
\* place s % 7 of the cycle and steps by (s \div 7 + 1) % 7
Seeds == {0, 1, 39}

\* the k-th draw (from 0) of a call under seed s
MathRandom(s, k) ==
    LET start == s % Len(RandTable)
        step == ((s \div Len(RandTable)) + 1) % Len(RandTable)
    IN  RandTable[((start + k * step) % Len(RandTable)) + 1]

\* The draws of a game frame: between the draws of spawnEnemy and the roll
\* for a power-up the star field draws a number of times that depends on
\* stars the model leaves out, so the roll has a seed of its own.  A frame
\* seed s stands for the seed s % 49 of spawnEnemy and the effects (seeds 49
\* apart give the same draws) and the seed s \div 49 of the roll.
RollSeed(s) == s \div 49

\* utils.random(min, max) = Math.random() * (max - min) + min, u the draw
random(u, min, max) == QAdd(QMul(u, QSub(max, min)), min)

(***************************************************************************)
(* Angles are rational multiples of pi (Math.PI * 2 is Z(2)).  The cosine  *)
(* of a rational multiple of pi is rational only at the multiples of pi/2  *)
(* and of pi/3, so a number that depends on Math.cos or Math.sin is kept   *)
(* exact as the record [q, k, t] that stands for                           *)
(*                                                                         *)
(*     q + k * cos(t * pi)                                                 *)
(*                                                                         *)
(* with q and k rationals and t a rational of (0, 1/2) other than 1/3; a   *)
(* rational number is [q, 0, 0].  Every record stands for one number and   *)
(* every number of this form has one record.                               *)
(***************************************************************************)
TwoPi == Z(2)

\* t reduced to [0, 2)
AngleMod(t) == Q(t.n % (2 * t.d), t.d)

\* the rational q as a number of the form above
T(q) == [q |-> q, k |-> Zero, t |-> Zero]

\* q + k * cos(t * pi) for t in [0, 1/2], in its one record
TNum(q, k, t) ==
    CASE q.d = 0 \/ k.d = 0 -> T(QAdd(q, k))
      [] k = Zero \/ t = Q(1, 2) -> T(q)
      [] t = Zero -> T(QAdd(q, k))
      [] t = Q(1, 3) -> T(QAdd(q, QMul(k, Q(1, 2))))
      [] OTHER -> [q |-> q, k |-> k, t |-> t]

\* a * c, c rational
TScale(a, c) ==
    IF a.k = Zero THEN T(QMul(a.q, c))
    ELSE IF a.q = Zero THEN TNum(Zero, QMul(a.k, c), a.t)
    ELSE TNum(QMul(a.q, c), QMul(a.k, c), a.t)

\* a + c, c rational
TAddQ(a, c) == TNum(QAdd(a.q, c), a.k, a.t)

\* a + b, for a and b that are rational or share their angle
TAdd(a, b) ==
    IF a.k = Zero THEN TNum(QAdd(b.q, a.q), b.k, b.t)
    ELSE TNum(QAdd(a.q, b.q), QAdd(a.k, b.k), a.t)

\* Math.cos(t * pi): cos is even and 2 pi periodic, and
\* cos(pi - x) = -cos(x) brings the angle into [0, pi/2]
MathCos(t) ==
    IF t.d <= 0 THEN T(NaN)
    ELSE LET r == AngleMod(t)
             e == IF QLe(r, One) THEN r ELSE QSub(Z(2), r)
         IN  IF QLe(e, Q(1, 2)) THEN TNum(Zero, One, e)
             ELSE TNum(Zero, Z(-1), QSub(One, e))

\* Math.sin(t * pi) = cos(t * pi - pi / 2)
MathSin(t) == MathCos(QSub(t, Q(1, 2)))

(***************************************************************************)
(* Option objects are functions from field names to values; an omitted    *)
(* field is absent from the domain.                                        *)
(***************************************************************************)
NoOptions == [k \in {} |-> Zero]

\* { ...a, ...b }
Spread(a, b) ==
    [k \in (DOMAIN a) \cup (DOMAIN b) |-> IF k \in DOMAIN b THEN b[k] ELSE a[k]]

(***************************************************************************)
(* useParticles                                                            *)
(***************************************************************************)
DEFAULT_OPTIONS ==
    [count |-> Z(10),
     colors |-> <<"#00d4ff", "#00ff88", "#ffaa00", "#ff4444", "#ffffff">>,
     speedMin |-> Z(50),
     speedMax |-> Z(200),
     life |-> Z(500),
     lifeVariance |-> Z(200),
     sizeMin |-> Z(2),
     sizeMax |-> Z(6),
     gravity |-> Z(200),
     friction |-> Q(49, 50),
     shrink |-> TRUE,
     fade |-> TRUE,
     direction |-> Zero,
     spread |-> TwoPi]

\* Math.random() is called five times per particle, in this order
DrawsPerParticle == 5

\* the value undefined where the code expects a string
UndefinedString == "undefined"

\* array[i], i from 0: undefined beyond the end of the array
At(array, i) == IF i + 1 \in DOMAIN array THEN array[i + 1] ELSE UndefinedString

\* for (let i = 0; i < count; i++) with count Infinity: i < count is true
\* in every round, the loop does not end and emit does not return
Endless(count) == count = Infinity

\* the rounds of for (let i = 0; i < count; i++): none when count is
\* undefined, NaN or -Infinity, as i < count is false then, and no number
\* of rounds when the loop is endless
Rounds(count) ==
    IF Endless(count) THEN CHOOSE n \in {} : TRUE
    ELSE IF count.d > 0 /\ count.n > 0 THEN -((-count.n) \div count.d) ELSE 0

\* the i-th particle (from 0) that emit pushes
NewParticle(x, y, opts, s, i) ==
    LET k == DrawsPerParticle * i
        angle == IF opts.spread = TwoPi
                 THEN random(MathRandom(s, k), Zero, TwoPi)
                 ELSE QAdd(opts.direction,
                           random(MathRandom(s, k),
                                  QNeg(QDiv(opts.spread, Z(2))),
                                  QDiv(opts.spread, Z(2))))
        speed == random(MathRandom(s, k + 1), opts.speedMin, opts.speedMax)
        life == QAdd(opts.life,
                     random(MathRandom(s, k + 2),
                            QNeg(opts.lifeVariance), opts.lifeVariance))
    IN  [x |-> T(x),
         y |-> T(y),
         vx |-> TScale(MathCos(angle), speed),
         vy |-> TScale(MathSin(angle), speed),
         life |-> life,
         maxLife |-> life,
         size |-> random(MathRandom(s, k + 3), opts.sizeMin, opts.sizeMax),
         color |-> At(opts.colors,
                      Floor(random(MathRandom(s, k + 4), Zero, Z(Len(opts.colors))))),
         gravity |-> opts.gravity,
         friction |-> opts.friction,
         shrink |-> opts.shrink,
         fade |-> opts.fade]

\* emit with the loop bound off by one (i <= opts.count)
emitOffByOne(ps, x, y, options, s) ==
    LET opts == Spread(DEFAULT_OPTIONS, options)
    IN  ps \o [i \in 1 .. Rounds(opts.count) + 1 |-> NewParticle(x, y, opts, s, i - 1)]

\* emit(x, y, options): the collection after the call
emit(ps, x, y, options, s) ==
    LET opts == Spread(DEFAULT_OPTIONS, options)
    IN  ps \o [i \in 1 .. Rounds(opts.count) |-> NewParticle(x, y, opts, s, i - 1)]

\* emit, and a preset that hands its options on to emit, comes back to its
\* caller unless the count it loops to is Infinity
emitReturns(options) == ~Endless(Spread(DEFAULT_OPTIONS, options).count)

trail(ps, x, y, options, s) ==
    emit(ps, x, y,
         Spread([count |-> Z(1), speedMin |-> Z(10), speedMax |-> Z(30),
                 life |-> Z(300), sizeMin |-> Z(2), sizeMax |-> Z(4),
                 gravity |-> Zero], options), s)

\* explode with the preset spread over the caller's options
explodePresetWins(ps, x, y, options, s) ==
    emit(ps, x, y,
         Spread(options,
                [count |-> Z(30), speedMin |-> Z(100), speedMax |-> Z(300),
                 life |-> Z(600), sizeMin |-> Z(3), sizeMax |-> Z(8)]), s)

explode(ps, x, y, options, s) ==
    emit(ps, x, y,
         Spread([count |-> Z(30), speedMin |-> Z(100), speedMax |-> Z(300),
                 life |-> Z(600), sizeMin |-> Z(3), sizeMax |-> Z(8)], options), s)

sparkle(ps, x, y, options, s) ==
    emit(ps, x, y,
         Spread([count |-> Z(5), speedMin |-> Z(50), speedMax |-> Z(150),
                 direction |-> Q(-1, 2), spread |-> Q(1, 3),
                 gravity |-> Z(-50), life |-> Z(400),
                 colors |-> <<"#ffff00", "#ffaa00", "#ffffff">>], options), s)

\* the filter callback's test: the particle is kept
Survives(p, deltaTime) == ~ QLe(QSub(p.life, deltaTime), Zero)

\* the mutation with friction scaled by the elapsed time (none at dt = 0)
AdvanceFrictionPerTime(p, deltaTime) ==
    LET dt == QDiv(deltaTime, Z(1000))
        f == IF deltaTime = Zero THEN One ELSE Coalesce(p.friction, One)
        vy1 == TAddQ(p.vy, QMul(Coalesce(p.gravity, Zero), dt))
        vx2 == TScale(p.vx, f)
        vy2 == TScale(vy1, f)
    IN  [p EXCEPT !.life = QSub(p.life, deltaTime),
                  !.vx = vx2,
                  !.vy = vy2,
                  !.x = TAdd(p.x, TScale(vx2, dt)),
                  !.y = TAdd(p.y, TScale(vy2, dt))]

\* the mutation with the position integrated before the velocity is updated
AdvancePositionFirst(p, deltaTime) ==
    LET dt == QDiv(deltaTime, Z(1000))
        vy1 == TAddQ(p.vy, QMul(Coalesce(p.gravity, Zero), dt))
    IN  [p EXCEPT !.life = QSub(p.life, deltaTime),
                  !.vx = TScale(p.vx, Coalesce(p.friction, One)),
                  !.vy = TScale(vy1, Coalesce(p.friction, One)),
                  !.x = TAdd(p.x, TScale(p.vx, dt)),
                  !.y = TAdd(p.y, TScale(p.vy, dt))]

\* the filter callback's mutation of a particle that is kept
Advance(p, deltaTime) ==
    LET dt == QDiv(deltaTime, Z(1000))
        vy1 == TAddQ(p.vy, QMul(Coalesce(p.gravity, Zero), dt))
        vx2 == TScale(p.vx, Coalesce(p.friction, One))
        vy2 == TScale(vy1, Coalesce(p.friction, One))
    IN  [p EXCEPT !.life = QSub(p.life, deltaTime),
                  !.vx = vx2,
                  !.vy = vy2,
                  !.x = TAdd(p.x, TScale(vx2, dt)),
                  !.y = TAdd(p.y, TScale(vy2, dt))]

\* update with forEach in place of filter: nothing is dropped
updateKeepsAll(ps, deltaTime) ==
    [i \in 1 .. Len(ps) |-> Advance(ps[i], deltaTime)]

\* update(deltaTime): the collection after the call
update(ps, deltaTime) ==
    LET kept == SelectSeq(ps, LAMBDA p : Survives(p, deltaTime))
    IN  [i \in 1 .. Len(kept) |-> Advance(kept[i], deltaTime)]

\* clear()
clear(ps) == << >>

\* a 2D context as the canvas element hands it out
ContextInit == [globalAlpha |-> One, fillStyle |-> "#000000", tx |-> Zero, ty |-> Zero]

\* ctx.globalAlpha = v: the context keeps its value when v is NaN, infinite
\* or outside [0, 1]
SetGlobalAlpha(c, v) ==
    IF Finite(v) /\ QLe(Zero, v) /\ QLe(v, One) THEN [c EXCEPT !.globalAlpha = v] ELSE c

\* ctx.fillStyle = v: the context keeps its value when v does not parse as
\* a colour, as the string "undefined" does not
SetFillStyle(c, v) ==
    IF v = UndefinedString THEN c ELSE [c EXCEPT !.fillStyle = v]

\* ctx.arc(x, y, radius, 0, 2 pi) adds nothing to the path when an argument
\* is NaN or infinite, and throws an IndexSizeError when all are finite and
\* the radius is negative
ArcThrows(x, y, radius) ==
    x.q.d > 0 /\ y.q.d > 0 /\ Finite(radius) /\ QLt(radius, Zero)

\* the loop of render(ctx) from particle i on: what each particle sets on
\* the context and the arc it fills with it; the loop ends where arc throws
RECURSIVE renderFrom(_, _, _, _)
renderFrom(ps, i, c, arcs) ==
    IF i > Len(ps) THEN [ctx |-> c, arcs |-> arcs, thrown |-> FALSE]
    ELSE LET p == ps[i]
             lifeRatio == QDiv(p.life, p.maxLife)
             size == IF p.shrink THEN QMul(p.size, lifeRatio) ELSE p.size
             alpha == IF p.fade THEN lifeRatio ELSE One
             set == SetFillStyle(SetGlobalAlpha(c, alpha), p.color)
         IN  IF ArcThrows(p.x, p.y, size)
             THEN [ctx |-> set, arcs |-> arcs, thrown |-> TRUE]
             ELSE renderFrom(ps, i + 1, set,
                             Append(arcs, [x |-> p.x, y |-> p.y, size |-> size,
                                           alpha |-> set.globalAlpha,
                                           color |-> set.fillStyle]))

\* render(ctx) without the closing ctx.globalAlpha = 1
renderLeavesAlpha(ps, c) ==
    LET r == renderFrom(ps, 1, c, << >>)
    IN  [particles |-> ps, ctx |-> r.ctx, arcs |-> r.arcs, thrown |-> r.thrown]

\* render(ctx): the collection and the context after the call, the arcs
\* filled, and whether the call has thrown (the closing ctx.globalAlpha = 1
\* is not reached then)
render(ps, c) ==
    LET r == renderFrom(ps, 1, c, << >>)
    IN  [particles |-> ps,
         ctx |-> IF r.thrown THEN r.ctx ELSE [r.ctx EXCEPT !.globalAlpha = One],
         arcs |-> r.arcs, thrown |-> r.thrown]

(***************************************************************************)
(* useScreenShake                                                          *)
(***************************************************************************)
ShakeInit ==
    [intensity |-> Zero, duration |-> Zero, elapsed |-> Zero,
     offsetX |-> Zero, offsetY |-> Zero, decay |-> Q(9, 10)]

\* a destructuring default: options.k, or dflt when the field is omitted or
\* undefined
Opt(options, k, dflt) ==
    IF k \in DOMAIN options /\ options[k] # Undefined THEN options[k] ELSE dflt

\* shake with the stacking branch taking the duration of the new call
shakeStackTakesDuration(st, options) ==
    LET intensity == Opt(options, "intensity", Z(10))
        duration == Opt(options, "duration", Z(200))
        decay == Opt(options, "decay", Q(9, 10))
    IN  IF QLt(st.intensity, intensity)
        THEN [st EXCEPT !.intensity = intensity,
                        !.duration = duration,
                        !.elapsed = Zero,
                        !.decay = decay]
        ELSE [st EXCEPT !.intensity =
                  QMin(QAdd(st.intensity, QMul(intensity, Q(1, 2))),
                       QMul(intensity, Z(2))),
                        !.duration = duration]

\* shake without the reset of elapsed in the replacing branch
shakeKeepsElapsed(st, options) ==
    LET intensity == Opt(options, "intensity", Z(10))
        duration == Opt(options, "duration", Z(200))
        decay == Opt(options, "decay", Q(9, 10))
    IN  IF QLt(st.intensity, intensity)
        THEN [st EXCEPT !.intensity = intensity,
                        !.duration = duration,
                        !.decay = decay]
        ELSE [st EXCEPT !.intensity =
                  QMin(QAdd(st.intensity, QMul(intensity, Q(1, 2))),
                       QMul(intensity, Z(2)))]

\* shake(options): the state after the call
shake(st, options) ==
    LET intensity == Opt(options, "intensity", Z(10))
        duration == Opt(options, "duration", Z(200))
        decay == Opt(options, "decay", Q(9, 10))
    IN  IF QLt(st.intensity, intensity)
        THEN [st EXCEPT !.intensity = intensity,
                        !.duration = duration,
                        !.elapsed = Zero,
                        !.decay = decay]
        ELSE [st EXCEPT !.intensity =
                  QMin(QAdd(st.intensity, QMul(intensity, Q(1, 2))),
                       QMul(intensity, Z(2)))]

shakeSmall(st) == shake(st, [intensity |-> Z(3), duration |-> Z(100)])
shakeMedium(st) == shake(st, [intensity |-> Z(8), duration |-> Z(200)])
shakeLarge(st) == shake(st, [intensity |-> Z(15), duration |-> Z(300)])

\* the intensity at or below which update() puts the shake to rest
RestThreshold == Q(1, 10)

\* update that always decays by the default rate
shakeUpdateDefaultDecay(st, deltaTime, s) ==
    IF QLe(st.intensity, RestThreshold)
    THEN [st EXCEPT !.intensity = Zero, !.offsetX = Zero, !.offsetY = Zero]
    ELSE LET elapsed == QAdd(st.elapsed, deltaTime)
             intensity == QMul(st.intensity, Q(9, 10))
             offsetX == random(MathRandom(s, 0), QNeg(intensity), intensity)
             offsetY == random(MathRandom(s, 1), QNeg(intensity), intensity)
         IN  IF QLe(st.duration, elapsed)
             THEN [st EXCEPT !.elapsed = elapsed, !.intensity = Zero,
                             !.offsetX = Zero, !.offsetY = Zero]
             ELSE [st EXCEPT !.elapsed = elapsed, !.intensity = intensity,
                             !.offsetX = offsetX, !.offsetY = offsetY]

\* update with the offsets drawn before the intensity decays
shakeUpdateOffsetsFirst(st, deltaTime, s) ==
    IF QLe(st.intensity, RestThreshold)
    THEN [st EXCEPT !.intensity = Zero, !.offsetX = Zero, !.offsetY = Zero]
    ELSE LET elapsed == QAdd(st.elapsed, deltaTime)
             intensity == QMul(st.intensity, st.decay)
             offsetX == random(MathRandom(s, 0), QNeg(st.intensity), st.intensity)
             offsetY == random(MathRandom(s, 1), QNeg(st.intensity), st.intensity)
         IN  IF QLe(st.duration, elapsed)
             THEN [st EXCEPT !.elapsed = elapsed, !.intensity = Zero,
                             !.offsetX = Zero, !.offsetY = Zero]
             ELSE [st EXCEPT !.elapsed = elapsed, !.intensity = intensity,
                             !.offsetX = offsetX, !.offsetY = offsetY]

\* update without the stop after the duration
shakeUpdateNoCutoff(st, deltaTime, s) ==
    IF QLe(st.intensity, RestThreshold)
    THEN [st EXCEPT !.intensity = Zero, !.offsetX = Zero, !.offsetY = Zero]
    ELSE LET elapsed == QAdd(st.elapsed, deltaTime)
             intensity == QMul(st.intensity, st.decay)
         IN  [st EXCEPT !.elapsed = elapsed, !.intensity = intensity,
                        !.offsetX = random(MathRandom(s, 0), QNeg(intensity), intensity),
                        !.offsetY = random(MathRandom(s, 1), QNeg(intensity), intensity)]

\* update with the intensity divided by decay
shakeUpdateDecayDivides(st, deltaTime, s) ==
    IF QLe(st.intensity, RestThreshold)
    THEN [st EXCEPT !.intensity = Zero, !.offsetX = Zero, !.offsetY = Zero]
    ELSE LET elapsed == QAdd(st.elapsed, deltaTime)
             intensity == QDiv(st.intensity, st.decay)
             offsetX == random(MathRandom(s, 0), QNeg(intensity), intensity)
             offsetY == random(MathRandom(s, 1), QNeg(intensity), intensity)
         IN  IF QLe(st.duration, elapsed)
             THEN [st EXCEPT !.elapsed = elapsed, !.intensity = Zero,
                             !.offsetX = Zero, !.offsetY = Zero]
             ELSE [st EXCEPT !.elapsed = elapsed, !.intensity = intensity,
                             !.offsetX = offsetX, !.offsetY = offsetY]

\* update that stops only once the elapsed time is past the duration
shakeUpdateStopsLate(st, deltaTime, s) ==
    IF QLe(st.intensity, RestThreshold)
    THEN [st EXCEPT !.intensity = Zero, !.offsetX = Zero, !.offsetY = Zero]
    ELSE LET elapsed == QAdd(st.elapsed, deltaTime)
             intensity == QMul(st.intensity, st.decay)
             offsetX == random(MathRandom(s, 0), QNeg(intensity), intensity)
             offsetY == random(MathRandom(s, 1), QNeg(intensity), intensity)
         IN  IF QLt(st.duration, elapsed)
             THEN [st EXCEPT !.elapsed = elapsed, !.intensity = Zero,
                             !.offsetX = Zero, !.offsetY = Zero]
             ELSE [st EXCEPT !.elapsed = elapsed, !.intensity = intensity,
                             !.offsetX = offsetX, !.offsetY = offsetY]

\* update(deltaTime) of the shake: the state after the call, s the seed of
\* the two Math.random() draws
shakeUpdate(st, deltaTime, s) ==
    IF QLe(st.intensity, RestThreshold)
    THEN [st EXCEPT !.intensity = Zero, !.offsetX = Zero, !.offsetY = Zero]
    ELSE LET elapsed == QAdd(st.elapsed, deltaTime)
             intensity == QMul(st.intensity, st.decay)
             offsetX == random(MathRandom(s, 0), QNeg(intensity), intensity)
             offsetY == random(MathRandom(s, 1), QNeg(intensity), intensity)
         IN  IF QLe(st.duration, elapsed)
             THEN [st EXCEPT !.elapsed = elapsed, !.intensity = Zero,
                             !.offsetX = Zero, !.offsetY = Zero]
             ELSE [st EXCEPT !.elapsed = elapsed, !.intensity = intensity,
                             !.offsetX = offsetX, !.offsetY = offsetY]

\* a call as the latest step records it
Call(op, x, y, options, dt) ==
    [op |-> op, x |-> x, y |-> y, options |-> options, dt |-> dt,
     seed |-> 0, lenBefore |-> 0, from |-> "idle", trace |-> << >>,
     drawn |-> << >>]

(***************************************************************************)
(* useGameState                                                            *)
(***************************************************************************)
IDLE == "idle"
PLAYING == "playing"
PAUSED == "paused"
GAME_OVER == "game_over"

\* result = null
NoResult == [score |-> -1, highScore |-> -1]

\* localStorage.getItem('highScore') = null
NoItem == -1

Max(a, b) == IF a >= b THEN a ELSE b

\* a queued state update: setX(val), or setScore(prev => prev + val)
Upd(var, kind, val) == [var |-> var, kind |-> kind, val |-> val]

\* what a lifecycle operation does when called: the updates it queues, the
\* messages it posts and the value it leaves in localStorage
Effect(updates, msgs, item) == [updates |-> updates, posted |-> msgs, storage |-> item]

play(item) ==
    Effect(<<Upd("state", "set", PLAYING), Upd("score", "set", 0),
             Upd("result", "set", NoResult)>>,
           <<[type |-> "GAME_START"]>>, item)

pause(item) ==
    Effect(<<Upd("state", "set", PAUSED)>>, <<[type |-> "GAME_PAUSE"]>>, item)

resume(item) ==
    Effect(<<Upd("state", "set", PLAYING)>>, <<[type |-> "GAME_RESUME"]>>, item)

reset(item) ==
    Effect(<<Upd("state", "set", IDLE), Upd("score", "set", 0),
             Upd("result", "set", NoResult)>>, << >>, item)

\* end(gameResult), sc and hs the score and highScore its closure captured;
\* a gameResult without a score is one whose score is undefined
end(gameResult, sc, hs, item) ==
    LET finalScore == IF "score" \in DOMAIN gameResult THEN gameResult.score ELSE sc
        newHighScore == Max(finalScore, hs)
        finalResult == Spread(gameResult,
                              [score |-> finalScore, highScore |-> newHighScore])
    IN  Effect((IF newHighScore > hs
                THEN <<Upd("highScore", "set", newHighScore)>> ELSE << >>)
               \o <<Upd("result", "set", finalResult),
                    Upd("state", "set", GAME_OVER)>>,
               <<[type |-> "GAME_OVER", result |-> finalResult]>>,
               IF newHighScore > hs THEN newHighScore ELSE item)

addScore(points, item) ==
    Effect(<<Upd("score", "add", points)>>, << >>, item)

\* the hook's values as of the latest render
Committed == [state |-> state, score |-> score, result |-> result, highScore |-> highScore]

\* one queued update applied to the hook's values
Apply(cur, u) ==
    CASE u.var = "state" -> [cur EXCEPT !.state = u.val]
      [] u.var = "score" -> [cur EXCEPT !.score = IF u.kind = "add" THEN @ + u.val ELSE u.val]
      [] u.var = "result" -> [cur EXCEPT !.result = u.val]
      [] u.var = "highScore" -> [cur EXCEPT !.highScore = u.val]

\* a render: the queued updates applied in the order they were queued
RECURSIVE Render(_, _)
Render(cur, queue) ==
    IF queue = << >> THEN cur ELSE Render(Apply(cur, Head(queue)), Tail(queue))

\* the SCORE_UPDATE messages the score updaters post when a render runs them
RECURSIVE ScoreMessages(_, _)
ScoreMessages(cur, queue) ==
    IF queue = << >> THEN << >>
    ELSE LET next == Apply(cur, Head(queue))
         IN  (IF Head(queue).var = "score" /\ Head(queue).kind = "add"
              THEN <<[type |-> "SCORE_UPDATE", score |-> next.score]>> ELSE << >>)
             \o ScoreMessages(next, Tail(queue))

(***************************************************************************)
(* The controls on screen, from the state of the latest render.            *)
(***************************************************************************)
\* GameControls with Pause rendered in every state but idle
GameControlsPauseAlways(st) ==
    (IF st # IDLE THEN {"pause"} ELSE {})
    \cup (IF st = PAUSED THEN {"resume"} ELSE {})
    \cup (IF st # IDLE THEN {"reset"} ELSE {})

\* GameControls: the buttons it renders
GameControls(st) ==
    (IF st = PLAYING THEN {"pause"} ELSE {})
    \cup (IF st = PAUSED THEN {"resume"} ELSE {})
    \cup (IF st # IDLE THEN {"reset"} ELSE {})

\* the overlay of the game component: the buttons it renders
Overlay(st, res) ==
    (IF st = IDLE THEN {"start"} ELSE {})
    \cup (IF st = PAUSED THEN {"resume"} ELSE {})
    \cup (IF st = GAME_OVER /\ res # NoResult THEN {"playAgain"} ELSE {})

Buttons == GameControls(state) \cup Overlay(state, result)

(***************************************************************************)
(* Space shooter (src/examples/space-shooter.tsx): the refs of the game    *)
(* and its frame callback.  Positions are in pixels and times in           *)
(* milliseconds, as in the code.  The stars (lines 126-138 and 245-252)    *)
(* are left out: the game only draws them.  An id is the value of          *)
(* generateId's counter; the time stamp in it is left out.                 *)
(***************************************************************************)
CONFIG ==
    [width |-> 600, height |-> 800, playerSpeed |-> 400, playerWidth |-> 40,
     playerHeight |-> 30, bulletSpeed |-> 600, bulletWidth |-> 4, bulletHeight |-> 12,
     fireRate |-> 150, enemySpeed |-> 150, enemySpawnRate |-> 800,
     powerupChance |-> Q(1, 10)]

PlayerInit ==
    [x |-> Q(CONFIG.width, 2), y |-> Z(CONFIG.height - 80),
     lives |-> 3, powerLevel |-> 1, invincible |-> 0]

\* bullets.current (id, x, y, vy, isEnemy), enemies.current (id, x, y, width,
\* height, health, type), powerups.current (id, x, y, type), the three
\* timers, and idCounter of utils.generateId
WorldInit ==
    [bullets |-> << >>, enemies |-> << >>, powerups |-> << >>,
     lastFire |-> 0, lastSpawn |-> 0, difficulty |-> One, idCounter |-> 0]

\* addScore(enemy.type === 'big' ? 30 : enemy.type === 'fast' ? 20 : 10)
Points(type) == IF type = "big" THEN 30 ELSE IF type = "fast" THEN 20 ELSE 10

Min(a, b) == IF a <= b THEN a ELSE b

\* utils.clamp
clamp(value, min, max) == QMax(min, QMin(max, value))

\* utils.randomInt(min, max) = Math.floor(random(min, max + 1)), u the draw
randomInt(u, min, max) == Floor(random(u, Z(min), Z(max + 1)))

\* utils.rectsCollide
rectsCollide(a, b) ==
    /\ QLt(a.x, QAdd(b.x, b.width))
    /\ QLt(b.x, QAdd(a.x, a.width))
    /\ QLt(a.y, QAdd(b.y, b.height))
    /\ QLt(b.y, QAdd(a.y, a.height))

\* the rectangle of the given size around (x, y)
CentredRect(x, y, width, height) ==
    [x |-> QSub(x, Q(width, 2)), y |-> QSub(y, Q(height, 2)),
     width |-> Z(width), height |-> Z(height)]

playerRect(p) == CentredRect(p.x, p.y, CONFIG.playerWidth, CONFIG.playerHeight)

bulletRect(bullet) ==
    CentredRect(bullet.x, bullet.y, CONFIG.bulletWidth, CONFIG.bulletHeight)

enemyRect(enemy) == CentredRect(enemy.x, enemy.y, enemy.width, enemy.height)

puRect(pu) == CentredRect(pu.x, pu.y, 30, 30)

\* the running game: the refs the frame callback mutates, the lifecycle
\* calls it has made (effect), the phases it has run (trace), what it has
\* drawn, whether it has returned after end(), and a record of the check of
\* bullets against enemies: the lists it ran on (checked), who damaged whom
\* and which enemy was paid for
Running(ps, sh, pl, w, fx) ==
    [particles |-> ps, shakeState |-> sh, player |-> pl, world |-> w,
     effect |-> fx, trace |-> << >>, drawn |-> << >>, ended |-> FALSE,
     checked |-> [bullets |-> << >>, enemies |-> << >>],
     damage |-> << >>, awards |-> << >>]

\* a bullet of fire(), the k-th id from now on, dx beside the player
NewBullet(w, p, k, dx) ==
    [id |-> w.idCounter + k, x |-> QAdd(p.x, Z(dx)), y |-> QSub(p.y, Z(20)),
     vy |-> Z(-CONFIG.bulletSpeed), isEnemy |-> FALSE]

\* fire(): one, two or three bullets by power level
fire(w, p) ==
    LET shots == IF p.powerLevel >= 3
                 THEN <<NewBullet(w, p, 1, -15), NewBullet(w, p, 2, 0),
                        NewBullet(w, p, 3, 15)>>
                 ELSE IF p.powerLevel >= 2
                 THEN <<NewBullet(w, p, 1, -10), NewBullet(w, p, 2, 10)>>
                 ELSE <<NewBullet(w, p, 1, 0)>>
    IN  [w EXCEPT !.bullets = @ \o shots, !.idCounter = @ + Len(shots)]

EnemyTypes == <<"basic", "basic", "fast", "big">>

\* spawnEnemy(): the type is the first draw, the place the second
spawnEnemy(w, s) ==
    LET type == EnemyTypes[randomInt(MathRandom(s, 0), 0,
                                     Min(Len(EnemyTypes) - 1, Floor(w.difficulty))) + 1]
        id == w.idCounter + 1
        u == MathRandom(s, 1)
        enemy ==
            CASE type = "fast" ->
                   [id |-> id, x |-> random(u, Z(30), Z(CONFIG.width - 30)), y |-> Z(-30),
                    width |-> 25, height |-> 25, health |-> 1, type |-> type]
              [] type = "big" ->
                   [id |-> id, x |-> random(u, Z(40), Z(CONFIG.width - 40)), y |-> Z(-50),
                    width |-> 50, height |-> 50, health |-> 3, type |-> type]
              [] OTHER ->
                   [id |-> id, x |-> random(u, Z(25), Z(CONFIG.width - 25)), y |-> Z(-30),
                    width |-> 30, height |-> 30, health |-> 1, type |-> type]
    IN  [w EXCEPT !.enemies = Append(@, enemy), !.idCounter = id]

\* isPressed(a) || isPressed(b)
Pressed(keys, a, b) == a \in keys \/ b \in keys

\* INPUT: movement, position clamped, firing, invincibility countdown
InputPhase(g, deltaTime, keys) ==
    LET speed == QMul(Z(CONFIG.playerSpeed), Q(deltaTime, 1000))
        p == g.player
        x1 == IF Pressed(keys, "ArrowLeft", "KeyA") THEN QSub(p.x, speed) ELSE p.x
        x2 == IF Pressed(keys, "ArrowRight", "KeyD") THEN QAdd(x1, speed) ELSE x1
        y1 == IF Pressed(keys, "ArrowUp", "KeyW") THEN QSub(p.y, speed) ELSE p.y
        y2 == IF Pressed(keys, "ArrowDown", "KeyS") THEN QAdd(y1, speed) ELSE y1
        moved == [p EXCEPT
                    !.x = clamp(x2, Q(CONFIG.playerWidth, 2),
                                QSub(Z(CONFIG.width), Q(CONFIG.playerWidth, 2))),
                    !.y = clamp(y2, Q(CONFIG.height, 2),
                                QSub(Z(CONFIG.height), Q(CONFIG.playerHeight, 2)))]
        lastFire == g.world.lastFire + deltaTime
    IN  [g EXCEPT
           !.player = [moved EXCEPT !.invincible = IF @ > 0 THEN @ - deltaTime ELSE @],
           !.world = IF "Space" \in keys /\ lastFire >= CONFIG.fireRate
                     THEN [fire([@ EXCEPT !.lastFire = lastFire], moved)
                             EXCEPT !.lastFire = 0]
                     ELSE [@ EXCEPT !.lastFire = lastFire],
           !.trace = Append(@, "input")]

\* SPAWN ENEMIES, and the difficulty for the frames to come
SpawnPhase(g, deltaTime, sc, s) ==
    LET lastSpawn == g.world.lastSpawn + deltaTime
        spawnRate == QDiv(Z(CONFIG.enemySpawnRate), g.world.difficulty)
    IN  [g EXCEPT
           !.world = [(IF QLe(spawnRate, Z(lastSpawn))
                       THEN [spawnEnemy(@, s) EXCEPT !.lastSpawn = 0]
                       ELSE [@ EXCEPT !.lastSpawn = lastSpawn])
                      EXCEPT !.difficulty = QAdd(One, Q(sc, 500))],
           !.trace = Append(@, "spawn")]

\* bullets.current.filter, lines 255-258
updateBullets(bullets, dt) ==
    LET onScreen(b) == QLt(Z(-20), b.y) /\ QLt(b.y, Z(CONFIG.height + 20))
    IN  SelectSeq([i \in 1 .. Len(bullets) |->
                      [bullets[i] EXCEPT !.y = QAdd(@, QMul(bullets[i].vy, dt))]],
                  onScreen)

\* enemies.current.filter, lines 261-271
updateEnemies(enemies, dt, difficulty) ==
    LET speed(e) == IF e.type = "fast" THEN QMul(Z(CONFIG.enemySpeed), Q(3, 2))
                    ELSE Z(CONFIG.enemySpeed)
        onScreen(e) == ~QLt(Z(CONFIG.height + 50), e.y)
    IN  SelectSeq([i \in 1 .. Len(enemies) |->
                      [enemies[i] EXCEPT
                          !.y = QAdd(@, QMul(QMul(speed(enemies[i]), dt), difficulty))]],
                  onScreen)

\* powerups.current.filter, lines 274-277
updatePowerups(powerups, dt) ==
    LET onScreen(pu) == QLt(pu.y, Z(CONFIG.height + 30))
    IN  SelectSeq([i \in 1 .. Len(powerups) |->
                      [powerups[i] EXCEPT !.y = QAdd(@, QMul(Z(100), dt))]],
                  onScreen)

\* UPDATE BULLETS, ENEMIES, POWERUPS
UpdateEntities(g, deltaTime) ==
    LET dt == Q(deltaTime, 1000)
    IN  [g EXCEPT
           !.world.bullets = updateBullets(@, dt),
           !.world.enemies = updateEnemies(@, dt, g.world.difficulty),
           !.world.powerups = updatePowerups(@, dt),
           !.trace = Append(@, "entities")]

\* the powerup a destroyed enemy leaves behind, if the first draw says so
dropPowerup(w, enemy, s) ==
    IF QLt(MathRandom(RollSeed(s), 0), CONFIG.powerupChance)
    THEN [w EXCEPT
            !.powerups = Append(@, [id |-> w.idCounter + 1, x |-> enemy.x, y |-> enemy.y,
                                    type |-> IF QLt(MathRandom(RollSeed(s), 1), Q(3, 10))
                                             THEN "life" ELSE "power"]),
            !.idCounter = @ + 1]
    ELSE w

\* the body of the inner loop, lines 284-319, for bullet i and enemy j
bulletHitsEnemy(g, i, j, item, s) ==
    LET bullet == g.world.bullets[i]
        enemy == g.world.enemies[j]
        health == enemy.health - 1
        hit == [g EXCEPT
                  !.world.bullets[i].vy = Zero,
                  !.world.bullets[i].y = Z(-100),
                  !.world.enemies[j].health = health,
                  !.damage = Append(@, [bullet |-> bullet.id, enemy |-> enemy.id])]
    IN  IF ~rectsCollide(bulletRect(bullet), enemyRect(enemy)) THEN g
        ELSE IF health <= 0
        THEN [hit EXCEPT
                !.shakeState = shakeSmall(@),
                !.particles =
                    explode(@, enemy.x, enemy.y,
                            [count |-> Z(15),
                             colors |-> <<"#ff4444", "#ff8800", "#ffff00">>], s),
                !.effect.updates = @ \o addScore(Points(enemy.type), item).updates,
                !.awards = Append(@, [enemy |-> enemy.id, points |-> Points(enemy.type)]),
                !.world = [dropPowerup(@, enemy, s) EXCEPT !.enemies[j].y = Z(-1000)]]
        ELSE [hit EXCEPT
                !.particles = emit(@, bullet.x, Z(-100),
                                   [count |-> Z(3), colors |-> <<"#ffffff">>], s)]

\* for (const enemy of enemies.current), from enemy j on, for bullet i
RECURSIVE enemiesLoop(_, _, _, _, _)
enemiesLoop(g, i, j, item, s) ==
    IF j > Len(g.world.enemies) THEN g
    ELSE enemiesLoop(bulletHitsEnemy(g, i, j, item, s), i, j + 1, item, s)

\* for (const bullet of bullets.current), from bullet i on
RECURSIVE bulletsLoop(_, _, _, _)
bulletsLoop(g, i, item, s) ==
    IF i > Len(g.world.bullets) THEN g
    ELSE IF g.world.bullets[i].isEnemy THEN bulletsLoop(g, i + 1, item, s)
    ELSE bulletsLoop(enemiesLoop(g, i, 1, item, s), i + 1, item, s)

\* Clean up destroyed enemies, lines 322-323
cleanUp(w) ==
    LET alive(e) == QLt(Z(-500), e.y)
        flying(b) == QLt(Z(-50), b.y)
    IN  [w EXCEPT !.enemies = SelectSeq(@, alive), !.bullets = SelectSeq(@, flying)]

\* COLLISION: BULLETS vs ENEMIES and the clean up, lines 279-323
BulletsVsEnemies(g, item, s) ==
    LET seen == [g EXCEPT !.checked = [bullets |-> g.world.bullets,
                                        enemies |-> g.world.enemies]]
    IN  [bulletsLoop(seen, 1, item, s) EXCEPT
           !.world = cleanUp(@),
           !.trace = Append(@, "collisions")]

\* the body of the loop of the player-vs-enemies check, lines 335-355, for
\* enemy j; the enemy that hits is marked (y = -1000) and stays in the list
hitPlayer(g, j, sc, hs, item, s) ==
    LET p == g.player
        enemy == g.world.enemies[j]
        hit == [g EXCEPT
                  !.player = [@ EXCEPT !.lives = @ - 1,
                                       !.powerLevel = Max(1, @ - 1),
                                       !.invincible = 2000],
                  !.shakeState = shakeMedium(@),
                  !.particles =
                      explode(@, p.x, p.y,
                              [count |-> Z(10), colors |-> <<"#00d4ff", "#ffffff">>], s),
                  !.world.enemies[j].y = Z(-1000)]
        fin == end([score |-> sc], sc, hs, item)
    IN  IF ~rectsCollide(playerRect(p), enemyRect(enemy)) THEN g
        ELSE IF p.lives - 1 <= 0
        THEN [hit EXCEPT
                !.shakeState = shakeLarge(@),
                !.particles =
                    explode(@, p.x, p.y,
                            [count |-> Z(50),
                             colors |-> <<"#00d4ff", "#00ff88", "#ffffff">>], s),
                !.effect = Effect(@.updates \o fin.updates, fin.posted, fin.storage),
                !.trace = Append(@, "end"),
                !.ended = TRUE]
        ELSE hit

\* for (const enemy of enemies.current), from enemy j on, until the callback
\* returns after end()
RECURSIVE playerLoop(_, _, _, _, _, _)
playerLoop(g, j, sc, hs, item, s) ==
    IF j > Len(g.world.enemies) \/ g.ended THEN g
    ELSE playerLoop(hitPlayer(g, j, sc, hs, item, s), j + 1, sc, hs, item, s)

\* COLLISION: PLAYER vs ENEMIES; invincible is looked at once, before the loop
PlayerVsEnemies(g, sc, hs, item, s) ==
    IF g.player.invincible <= 0 THEN playerLoop(g, 1, sc, hs, item, s) ELSE g

\* the callback of powerups.current.filter, lines 367-381, for powerup pu;
\* kept holds the powerups that stay
collectPowerup(g, kept, pu, s) ==
    IF rectsCollide(playerRect(g.player), puRect(pu))
    THEN [g EXCEPT
            !.player = IF pu.type = "power"
                       THEN [@ EXCEPT !.powerLevel = Min(3, @ + 1)]
                       ELSE [@ EXCEPT !.lives = Min(5, @ + 1)],
            !.particles = sparkle(@, pu.x, pu.y, NoOptions, s),
            !.world.powerups = kept]
    ELSE [g EXCEPT !.world.powerups = Append(kept, pu)]

RECURSIVE powerupsLoop(_, _, _)
powerupsLoop(g, todo, s) ==
    IF todo = << >> THEN g
    ELSE powerupsLoop(collectPowerup(g, g.world.powerups, Head(todo), s), Tail(todo), s)

\* COLLISION: PLAYER vs POWERUPS
PlayerVsPowerups(g, s) ==
    powerupsLoop([g EXCEPT !.world.powerups = << >>], g.world.powerups, s)

\* UPDATE EFFECTS
UpdateEffects(g, deltaTime, s) ==
    [g EXCEPT !.particles = update(@, Z(deltaTime)),
              !.shakeState = shakeUpdate(@, Z(deltaTime), s),
              !.trace = @ \o <<"particles.update", "shake.update">>]

\* the 2D context: the translation in effect, the translations saved by
\* save(), and what has been drawn with the translation it was drawn under
CtxInit == [tx |-> Zero, ty |-> Zero, saved |-> << >>, drawn |-> << >>]

CtxSave(c) == [c EXCEPT !.saved = Append(@, [tx |-> c.tx, ty |-> c.ty])]

CtxRestore(c) ==
    IF c.saved = << >> THEN c
    ELSE [c EXCEPT !.tx = c.saved[Len(c.saved)].tx,
                   !.ty = c.saved[Len(c.saved)].ty,
                   !.saved = SubSeq(@, 1, Len(@) - 1)]

\* translate(dx, dy): a canvas ignores the call when an argument is not
\* a finite number
CtxTranslate(c, dx, dy) ==
    IF Finite(dx) /\ Finite(dy)
    THEN [c EXCEPT !.tx = QAdd(@, dx), !.ty = QAdd(@, dy)]
    ELSE c

\* a drawing call: what is drawn, under the translation in effect and
\* inside so many save() blocks
Draw(c, what) ==
    [c EXCEPT !.drawn = Append(@, [what |-> what, tx |-> c.tx, ty |-> c.ty,
                                   depth |-> Len(c.saved)])]

\* shake.apply(ctx)
shakeApply(c, st) == CtxTranslate(c, st.offsetX, st.offsetY)

\* RENDER and HUD: background, stars, powerups, enemies, bullets and player
\* (world), particles.render, restore, then score, lives and power level
RenderPhase(g) ==
    [g EXCEPT
       !.trace = Append(@, "render"),
       !.drawn =
           Draw(CtxRestore(
                  Draw(Draw(Draw(shakeApply(CtxSave(CtxInit), g.shakeState),
                                 "clear"), "world"), "particles")),
                "hud").drawn]

\* the canvas context after a frame that has drawn: restore() has brought
\* back what save() found, and the HUD has set the fill style for the
\* score, the lives and, last, the power level
hudContext(c) == [c EXCEPT !.fillStyle = "#ffaa00"]

\* the frame callback (the function passed to useGameLoop) for the elapsed
\* time in.deltaTime and the keys in.keys held down; sc and hs are the score
\* and highScore of the render that created it
frame(ps, sh, pl, w, in, sc, hs, item, s) ==
    CHOOSE r \in
        { IF g3.ended THEN g3
          ELSE RenderPhase(UpdateEffects(PlayerVsPowerups(g3, s), in.deltaTime, s))
          : g3 \in
            { PlayerVsEnemies(g2, sc, hs, item, s)
              : g2 \in
                { BulletsVsEnemies(g1, item, s)
                  : g1 \in
                    { UpdateEntities(
                        SpawnPhase(
                          InputPhase(Running(ps, sh, pl, w, Effect(<< >>, << >>, item)),
                                     in.deltaTime, in.keys),
                          in.deltaTime, sc, s),
                        in.deltaTime) } } } } : TRUE

\* resetGameState without the reset of bullets, enemies, powerups, timers
resetGameStateKeepsWorld(ps, w) ==
    [player |-> PlayerInit, world |-> w, particles |-> clear(ps)]

\* resetGameState of the space shooter; generateId's counter is a variable
\* of the utils module and runs on
resetGameState(ps, w) ==
    [player |-> PlayerInit,
     world |-> [WorldInit EXCEPT !.idCounter = w.idCounter],
     particles |-> clear(ps)]

\* useGameLoop's effect without the check of active and without a cleanup
LoopEffectAlways(active) == TRUE

\* useGameLoop's effect, run after a render: the loop is requested when
\* active and cancelled by the cleanup otherwise
LoopEffect(active) == active

(***************************************************************************)
(* Brick breaker (src/unnamed/part_010 354-720): the refs of the game and  *)
(* its frame callback through the update of the effects.  The drawing that *)
(* follows changes no ref and is left out, and so are the ids of balls and *)
(* bricks, which the game never reads.  ballsIn, ballsOut and bricksOut    *)
(* record the balls as the brick check of the latest frame found them and  *)
(* the balls and bricks as it left them.                                   *)
(***************************************************************************)
BreakerConfig ==
    [width |-> 600, height |-> 700, paddleWidth |-> 100, paddleHeight |-> 15,
     paddleY |-> 650, ballRadius |-> 8, ballSpeed |-> 400,
     brickRows |-> 6, brickCols |-> 10,
     brickWidth |-> 54, brickHeight |-> 20, brickPadding |-> 4,
     brickOffsetTop |-> 60, brickOffsetLeft |-> 22]

BrickColors == <<"#ff4444", "#ff8844", "#ffcc44", "#44ff44", "#44ccff", "#aa44ff">>

\* bricks.current as initBricks leaves it: row by row, columns within a row
initBricks ==
    [k \in 1 .. BreakerConfig.brickRows * BreakerConfig.brickCols |->
        LET row == (k - 1) \div BreakerConfig.brickCols
            col == (k - 1) % BreakerConfig.brickCols
        IN  [x |-> BreakerConfig.brickOffsetLeft
                     + col * (BreakerConfig.brickWidth + BreakerConfig.brickPadding),
             y |-> BreakerConfig.brickOffsetTop
                     + row * (BreakerConfig.brickHeight + BreakerConfig.brickPadding),
             color |-> BrickColors[(row % Len(BrickColors)) + 1],
             health |-> IF row < 2 THEN 2 ELSE 1,
             active |-> TRUE]]

\* spawnBall pushes a ball onto balls.current
spawnBall(balls, s) ==
    Append(balls,
           [x |-> Q(BreakerConfig.width, 2),
            y |-> Z(BreakerConfig.paddleY - 30),
            vx |-> QMul(QMul(QSub(MathRandom(s, 0), Q(1, 2)), Z(BreakerConfig.ballSpeed)),
                        Q(1, 2)),
            vy |-> Z(-BreakerConfig.ballSpeed),
            radius |-> BreakerConfig.ballRadius])

PaddleInit == [x |-> Q(BreakerConfig.width, 2), width |-> BreakerConfig.paddleWidth]

brickRect(brick) ==
    [x |-> Z(brick.x), y |-> Z(brick.y),
     width |-> Z(BreakerConfig.brickWidth), height |-> Z(BreakerConfig.brickHeight)]

ballRect(ball) ==
    [x |-> QSub(ball.x, Z(ball.radius)), y |-> QSub(ball.y, Z(ball.radius)),
     width |-> Z(ball.radius * 2), height |-> Z(ball.radius * 2)]

paddleRect(p) ==
    [x |-> QSub(p.x, Q(p.width, 2)), y |-> Z(BreakerConfig.paddleY),
     width |-> Z(p.width), height |-> Z(BreakerConfig.paddleHeight)]

\* the refs of the game as the component creates them
BreakerInit ==
    [paddle |-> PaddleInit, balls |-> << >>, bricks |-> << >>,
     lives |-> 3, level |-> 1, combo |-> 0,
     ballsIn |-> << >>, ballsOut |-> << >>, bricksOut |-> << >>]

\* resetGameState of brick breaker, lines 462-471
resetBreaker(br, ps, s) ==
    [breaker |-> [br EXCEPT !.paddle = PaddleInit, !.balls = spawnBall(<< >>, s),
                            !.bricks = initBricks,
                            !.lives = 3, !.level = 1, !.combo = 0],
     particles |-> clear(ps)]

\* the frame callback as it runs: refs, effects, the calls made on the hook
\* and whether it has returned early
Breaking(br, ps, sh, fx) ==
    [breaker |-> br, particles |-> ps, shakeState |-> sh, effect |-> fx,
     trace |-> << >>, drawn |-> << >>, ended |-> FALSE]

\* Wall collisions, lines 489-504
wallCollisions(ball) ==
    LET r == Z(ball.radius)
        w == Z(BreakerConfig.width)
        hitsLeft == QLt(QSub(ball.x, r), Zero)
        x1 == IF hitsLeft THEN r ELSE ball.x
        vx1 == IF hitsLeft THEN QAbs(ball.vx) ELSE ball.vx
        hitsRight == QLt(w, QAdd(x1, r))
        hitsTop == QLt(QSub(ball.y, r), Zero)
    IN  [ball EXCEPT
           !.x = IF hitsRight THEN QSub(w, r) ELSE x1,
           !.vx = IF hitsRight THEN QNeg(QAbs(vx1)) ELSE vx1,
           !.y = IF hitsTop THEN r ELSE @,
           !.vy = IF hitsTop THEN QAbs(@) ELSE @]

\* Math.min(speed * 1.02, ballSpeed * 1.5) is speed * 1.02: the speed
\* Math.sqrt(vx * vx + vy * vy) is at most 600 * 50 / 51
BelowSpeedCap(vx, vy) ==
    HypotLe(vx, vy, Q(((BreakerConfig.ballSpeed * 3) \div 2) * 50, 51))

\* the velocity the paddle gives the ball, lines 524-537: up, sideways by
\* where the ball has hit, and 2 % faster up to the speed cap.  cos and sin
\* of atan2(vy, vx) are vx and vy over the speed, so the new velocity is
\* (vx, vy) times newSpeed over speed: 51/50 of (vx, vy) below the cap, and
\* above it (vx, vy) times 600 over Math.sqrt(vx * vx + vy * vy)
paddleBounce(ball, p) ==
    LET vy == QNeg(QAbs(ball.vy))
        hitPos == QDiv(QSub(ball.x, p.x), Q(p.width, 2))
        vx == QMul(QMul(hitPos, Z(BreakerConfig.ballSpeed)), Q(4, 5))
        cap == Z((BreakerConfig.ballSpeed * 3) \div 2)
    IN  IF BelowSpeedCap(vx, vy)
        THEN [ball EXCEPT !.y = Z(BreakerConfig.paddleY - ball.radius),
                          !.vx = QMul(vx, Q(51, 50)),
                          !.vy = QMul(vy, Q(51, 50))]
        ELSE [ball EXCEPT !.y = Z(BreakerConfig.paddleY - ball.radius),
                          !.vx = Along(vx, vy, cap),
                          !.vy = Along(vy, vx, cap)]

\* the callback of balls.current.filter, lines 488-550, for one ball: the
\* balls it keeps are appended to h.breaker.balls
updateBall(h, ball, dt, s) ==
    CHOOSE r \in
        { IF QLt(Zero, at.vy)
             /\ rectsCollide(ballRect(at), paddleRect(h.breaker.paddle))
          THEN [h EXCEPT
                  !.breaker.balls = Append(@, paddleBounce(at, h.breaker.paddle)),
                  !.breaker.combo = 0,
                  !.particles =
                      emit(@, at.x, Z(BreakerConfig.paddleY - ball.radius),
                           [count |-> Z(5), colors |-> <<"#00d4ff">>, life |-> Z(200)], s),
                  !.trace = Append(@, "paddle")]
          ELSE IF QLt(Z(BreakerConfig.height + ball.radius), at.y)
          THEN h
          ELSE [h EXCEPT !.breaker.balls = Append(@, at)]
          : at \in { wallCollisions([ball EXCEPT
                                       !.x = QAdd(@, QMul(ball.vx, dt)),
                                       !.y = QAdd(@, QMul(ball.vy, dt))]) } } : TRUE

RECURSIVE ballsLoop(_, _, _, _)
ballsLoop(h, todo, dt, s) ==
    IF todo = << >> THEN h
    ELSE ballsLoop(updateBall(h, Head(todo), dt, s), Tail(todo), dt, s)

\* UPDATE BALLS, lines 483-547
updateBalls(h, dt, s) ==
    ballsLoop([h EXCEPT !.breaker.balls = << >>], h.breaker.balls, dt, s)

\* Check if all balls lost, lines 549-563
ballsLost(h, sc, hs, item, s) ==
    LET fin == end([score |-> sc, level |-> h.breaker.level], sc, hs, item)
    IN  IF h.breaker.balls # << >> THEN h
        ELSE IF h.breaker.lives - 1 <= 0
        THEN [h EXCEPT
                !.breaker.lives = @ - 1,
                !.breaker.combo = 0,
                !.shakeState = shakeLarge(@),
                !.effect = Effect(@.updates \o fin.updates, fin.posted, fin.storage),
                !.trace = Append(@, "end"),
                !.ended = TRUE]
        ELSE [h EXCEPT
                !.breaker.lives = @ - 1,
                !.breaker.combo = 0,
                !.breaker.balls = spawnBall(@, s),
                !.trace = Append(@, "spawnBall")]

\* ball b has met the active brick i: the body of if (rectsCollide(...)),
\* lines 583-613
hitBrick(h, b, i, s) ==
    LET ball == h.breaker.balls[b]
        brick == h.breaker.bricks[i]
        r == Z(ball.radius)
        overlapLeft == QSub(QAdd(ball.x, r), Z(brick.x))
        overlapRight == QSub(Z(brick.x + BreakerConfig.brickWidth), QSub(ball.x, r))
        overlapTop == QSub(QAdd(ball.y, r), Z(brick.y))
        overlapBottom == QSub(Z(brick.y + BreakerConfig.brickHeight), QSub(ball.y, r))
        minOverlapX == QMin(overlapLeft, overlapRight)
        minOverlapY == QMin(overlapTop, overlapBottom)
        bounced == IF QLt(minOverlapX, minOverlapY)
                   THEN [ball EXCEPT !.vx = QNeg(@)]
                   ELSE [ball EXCEPT !.vy = QNeg(@)]
        health == brick.health - 1
        combo == h.breaker.combo + 1
    IN  IF health <= 0
        THEN [h EXCEPT
               !.breaker.balls[b] = bounced,
               !.breaker.bricks[i] = [brick EXCEPT !.health = health, !.active = FALSE],
               !.breaker.combo = combo,
               !.effect.updates = @ \o addScore(10 * combo, h.effect.storage).updates,
               !.shakeState = shakeSmall(@),
               !.particles =
                   explode(@, Z(brick.x + BreakerConfig.brickWidth \div 2),
                           Z(brick.y + BreakerConfig.brickHeight \div 2),
                           [count |-> Z(12), colors |-> <<brick.color, "#ffffff">>], s),
               !.trace = Append(@, "addScore")]
        ELSE [h EXCEPT
               !.breaker.balls[b] = bounced,
               !.breaker.bricks[i] = [brick EXCEPT !.health = health],
               !.particles = emit(@, ball.x, ball.y,
                                  [count |-> Z(5), colors |-> <<brick.color>>], s),
               !.trace = Append(@, "hit")]

\* the active bricks from brick i on whose rectangle overlaps that of ball b
Hits(h, b, i) ==
    { j \in i .. Len(h.breaker.bricks) :
        /\ h.breaker.bricks[j].active
        /\ rectsCollide(ballRect(h.breaker.balls[b]), brickRect(h.breaker.bricks[j])) }

\* the first brick of a set of bricks, in the order of the array
First(hits) == CHOOSE i \in hits : \A j \in hits : i <= j

\* for (const brick of bricks.current) without the break: the loop goes on
\* from the brick after the one it has hit
RECURSIVE brickLoopOn(_, _, _, _)
brickLoopOn(h, b, i, s) ==
    IF Hits(h, b, i) = {} THEN h
    ELSE brickLoopOn(hitBrick(h, b, First(Hits(h, b, i)), s), b,
                     First(Hits(h, b, i)) + 1, s)

\* the bricks checked against ball b, every overlapping brick damaged
ballVsBricksNoBreak(h, b, s) == brickLoopOn(h, b, 1, s)

\* for (const brick of bricks.current), lines 567-617: the loop passes over
\* the bricks that are not active or do not overlap, and leaves at the first
\* one that is hit
ballVsBricks(h, b, s) ==
    IF Hits(h, b, 1) = {} THEN h
    ELSE hitBrick(h, b, First(Hits(h, b, 1)), s)

\* BRICK COLLISIONS: for (const ball of balls.current), from ball b on
RECURSIVE brickCollisions(_, _, _)
brickCollisions(h, b, s) ==
    IF b > Len(h.breaker.balls) THEN h
    ELSE brickCollisions(ballVsBricks(h, b, s), b + 1, s)

\* Check win condition, lines 620-630
winCheck(h, s) ==
    IF \A i \in 1 .. Len(h.breaker.bricks) : ~h.breaker.bricks[i].active
    THEN [h EXCEPT !.breaker.level = @ + 1,
                   !.shakeState = shakeMedium(@),
                   !.breaker.bricks = initBricks,
                   !.breaker.balls = spawnBall(<< >>, s),
                   !.breaker.paddle.width = BreakerConfig.paddleWidth,
                   !.trace = Append(@, "level")]
    ELSE h

\* RENDER and HUD, lines 641-720: background, bricks, paddle and balls
\* (world) and particles.render between save() + shake.apply() and
\* restore(), then score, level and lives, and the combo when it is above 1
breakerRender(h) ==
    LET hud == Draw(CtxRestore(
                      Draw(Draw(Draw(shakeApply(CtxSave(CtxInit), h.shakeState),
                                     "clear"), "world"), "particles")),
                    "hud")
    IN  [h EXCEPT
           !.trace = Append(@, "render"),
           !.drawn = IF h.breaker.combo > 1 THEN Draw(hud, "combo").drawn ELSE hud.drawn]

\* the frame callback of brick breaker, lines 475-721; mouseX is
\* mouse.position.x, sc the score of the render that created the callback
breakerFrame(br, ps, sh, in, sc, hs, item, s) ==
    LET dt == Q(in.deltaTime, 1000)
        half == Q(br.paddle.width, 2)
        x == clamp(Z(in.mouseX), half, QSub(Z(BreakerConfig.width), half))
    IN  CHOOSE r \in
          { IF h2.ended THEN h2
            ELSE breakerRender(
                   [h2 EXCEPT !.particles = update(@, Z(in.deltaTime)),
                              !.shakeState = shakeUpdate(@, Z(in.deltaTime), s),
                              !.trace = @ \o <<"particles.update", "shake.update">>])
            : h2 \in
              { IF h1.ended
                THEN [h1 EXCEPT !.breaker.ballsIn = << >>,
                                !.breaker.ballsOut = << >>,
                                !.breaker.bricksOut = h1.breaker.bricks]
                ELSE CHOOSE w \in
                       { winCheck([h3 EXCEPT !.breaker.ballsIn = h1.breaker.balls,
                                             !.breaker.ballsOut = h3.breaker.balls,
                                             !.breaker.bricksOut = h3.breaker.bricks], s)
                         : h3 \in {brickCollisions(h1, 1, s)} } : TRUE
                : h1 \in
                  { ballsLost(h0, sc, hs, item, s)
                    : h0 \in
                      { updateBalls(Breaking([br EXCEPT !.paddle.x = x], ps, sh,
                                             Effect(<< >>, << >>, item)),
                                    dt, s) } } } } : TRUE

\* the canvas context after a frame that has drawn, lines 697-720:
\* restore() has brought back what save() found, and the HUD has set the
\* fill style for the texts, for each life and for a combo above 1
breakerHud(c, br) ==
    [c EXCEPT !.fillStyle = IF br.combo > 1 THEN "#ffaa00"
                            ELSE IF br.lives > 0 THEN "#00d4ff"
                            ELSE "#ffffff"]

(***************************************************************************)
(* useMouse: the mouse state as of the latest render, the updaters queued  *)
(* by setMouse and the 16 ms timeout of the flag-clearing effect.  The     *)
(* position is left out.  A mousedown or mouseup is a discrete event:      *)
(* React renders its update and runs the effects before the handler        *)
(* returns, passing over the updates queued from the timeout, which it     *)
(* renders later from the state they were queued on.                       *)
(***************************************************************************)
MouseInit == [isDown |-> FALSE, justPressed |-> FALSE, justReleased |-> FALSE]

\* seenPressed / seenReleased count the frame callbacks that have read the
\* flag as true since the latest press / release
PointerInit ==
    [mouse |-> MouseInit, base |-> MouseInit, queue |-> << >>, timer |-> FALSE,
     effect |-> FALSE,
     pressed |-> FALSE, released |-> FALSE, seenPressed |-> 0, seenReleased |-> 0]

\* the updaters handed to setMouse
MouseUpdate(kind, prev) ==
    CASE kind = "down" -> [prev EXCEPT !.isDown = TRUE, !.justPressed = TRUE]
      [] kind = "up" -> [prev EXCEPT !.isDown = FALSE, !.justReleased = TRUE]
      [] kind = "clear" -> [prev EXCEPT !.justPressed = FALSE, !.justReleased = FALSE]

RECURSIVE MouseRender(_, _)
MouseRender(prev, queue) ==
    IF queue = << >> THEN prev
    ELSE MouseRender(MouseUpdate(Head(queue), prev), Tail(queue))

\* the flag-clearing effect after a render from old to new: when a flag has
\* changed the cleanup cancels the timeout and the effect sets a new one if
\* a flag is up
MouseEffect(timer, old, new) ==
    IF <<old.justPressed, old.justReleased>> # <<new.justPressed, new.justReleased>>
    THEN new.justPressed \/ new.justReleased
    ELSE timer

\* the flag-clearing effect of the latest render, if it is still to run:
\* the cleanup cancels the timeout, and a new one is set if a flag is up
PointerEffect(pt) ==
    IF pt.effect
    THEN [pt EXCEPT !.timer = pt.mouse.justPressed \/ pt.mouse.justReleased,
                    !.effect = FALSE]
    ELSE pt

\* handleMouseDown / handleTouchStart, handleMouseUp / handleTouchEnd: the
\* event is discrete, React runs the effects still to run, renders the
\* update and runs the effects of that render before it returns
PointerEvent(pt, kind) ==
    LET was == PointerEffect(pt)
        new == MouseUpdate(kind, was.mouse)
    IN  [was EXCEPT
          !.mouse = new,
          !.base = IF was.queue = << >> THEN new ELSE @,
          !.queue = IF was.queue = << >> THEN @ ELSE Append(@, kind),
          !.timer = MouseEffect(@, was.mouse, new),
          !.pressed = IF kind = "down" THEN TRUE ELSE @,
          !.released = IF kind = "up" THEN TRUE ELSE @,
          !.seenPressed = IF kind = "down" THEN 0 ELSE @,
          !.seenReleased = IF kind = "up" THEN 0 ELSE @]

\* the timeout callback
PointerTimeout(pt) ==
    [pt EXCEPT !.timer = FALSE, !.queue = Append(@, "clear")]

\* React renders the updaters the timeout has queued (and the ones queued
\* behind them), after the effects still to run; the flag-clearing effect
\* of this render, due when a flag has changed, runs in a later task
PointerRender(pt) ==
    LET was == PointerEffect(pt)
        new == MouseRender(was.base, was.queue)
    IN  [was EXCEPT !.mouse = new, !.base = new, !.queue = << >>,
                    !.effect = <<was.mouse.justPressed, was.mouse.justReleased>>
                                  # <<new.justPressed, new.justReleased>>]

\* a frame callback reads mouse.justPressed and mouse.justReleased
PointerFrame(pt) ==
    [pt EXCEPT !.seenPressed = IF pt.mouse.justPressed THEN @ + 1 ELSE @,
               !.seenReleased = IF pt.mouse.justReleased THEN @ + 1 ELSE @]

(***************************************************************************)
(* useGameLoop (src/lib/hooks/useScreenShake.ts 153-173) and the browser's *)
(* animation frames.  Every run of the effect that starts a loop has its   *)
(* own closure variables lastTime and animationId; the browser keeps the   *)
(* list of requested callbacks and, at a display frame, calls the ones     *)
(* requested before that frame with the frame's timestamp.                 *)
(***************************************************************************)
RafInit ==
    [active |-> FALSE,   \* the argument `active` as of the latest commit
     ran |-> FALSE,      \* the `active` the effect last ran with (its dependency)
     closures |-> << >>, \* [lastTime, animationId] of each run that started a loop
     requests |-> {},    \* the browser's list of animation frame callbacks
     nextId |-> 1,       \* the handle the next request returns
     now |-> 0,          \* performance.now(), in ms
     stamp |-> 0,        \* the timestamp of the latest display frame
     frame |-> 0,        \* number of display frames so far
     log |-> << >>]      \* the calls made so far, in order

\* a call as the log keeps it: time is performance.now() at the call and
\* stamp the timestamp of the display frame it was made in or after
LoopEvent(op, inst, id, delta, r) ==
    [op |-> op, inst |-> inst, id |-> id, delta |-> delta, time |-> r.now,
     stamp |-> r.stamp, frame |-> r.frame]

\* animationId = requestAnimationFrame(loop), the request itself
requestAnimationFrame(r, inst) ==
    [r EXCEPT !.requests = @ \cup {[id |-> r.nextId, inst |-> inst]},
              !.nextId = @ + 1,
              !.log = Append(@, LoopEvent("request", inst, r.nextId, 0, r))]

cancelAnimationFrame(r, id) ==
    [r EXCEPT !.requests = {q \in @ : q.id # id},
              !.log = Append(@, LoopEvent("cancel", 0, id, 0, r))]

\* a loop that requests the next frame without keeping its handle
loopKeepsFirstId(r, inst, time) ==
    LET delta == time - r.closures[inst].lastTime
        invoked == [r EXCEPT !.closures[inst].lastTime = time,
                             !.log = Append(@, LoopEvent("callback", inst, 0, delta, r))]
    IN  requestAnimationFrame(invoked, inst)

\* loop(time), lines 162-167, of the effect run inst
loop(r, inst, time) ==
    LET delta == time - r.closures[inst].lastTime
        invoked == [r EXCEPT !.closures[inst].lastTime = time,
                             !.log = Append(@, LoopEvent("callback", inst, 0, delta, r))]
    IN  [requestAnimationFrame(invoked, inst)
           EXCEPT !.closures[inst].animationId = invoked.nextId]

\* the effect's body, lines 158-169
useGameLoopEffect(r) ==
    IF ~r.active THEN r
    ELSE LET inst == Len(r.closures) + 1
             started == [r EXCEPT !.closures =
                             Append(@, [lastTime |-> r.now, animationId |-> r.nextId])]
         IN  requestAnimationFrame(started, inst)

\* the effect's cleanup, line 171, of the latest run that started a loop
useGameLoopCleanup(r) ==
    cancelAnimationFrame(r, r.closures[Len(r.closures)].animationId)

\* React runs the effect when `active` has changed: the cleanup of the
\* previous run if it returned one, then the body
flushLoopEffect(r) ==
    LET cleaned == IF r.ran THEN useGameLoopCleanup(r) ELSE r
    IN  [useGameLoopEffect(cleaned) EXCEPT !.ran = r.active]

RECURSIVE runCallbacks(_, _, _)
runCallbacks(r, todo, time) ==
    IF todo = {} THEN r
    ELSE LET q == CHOOSE q \in todo : \A o \in todo : q.id <= o.id
         IN  runCallbacks(loop(r, q.inst, time), todo \ {q}, time)

\* a display frame: the browser empties its list and calls the callbacks
\* that were on it, in the order of their requests, with the timestamp of
\* the frame, which is the time the frame began and not the time of the call
animationFrame(r, time) ==
    LET began == [r EXCEPT !.requests = {}, !.frame = @ + 1, !.stamp = time]
    IN  runCallbacks(began, r.requests, time)

(***************************************************************************)
(* Flappy bird (src/unnamed/part_010 15-320): the refs of the game and its *)
(* frame callback through the update of the effects.  The drawing that     *)
(* follows changes no ref and is left out.  frames, awards, removed, jumps *)
(* and fresh record what the callback has done; the game does not read     *)
(* them.                                                                   *)
(***************************************************************************)
FlappyConfig ==
    [width |-> 400, height |-> 600, gravity |-> 1500, jumpForce |-> -400,
     pipeSpeed |-> 200, pipeWidth |-> 60, pipeGap |-> 150,
     pipeSpawnInterval |-> 1500, birdSize |-> 24, birdX |-> 80]

BirdInit == [y |-> Z(FlappyConfig.height \div 2), vy |-> Zero, rotation |-> Zero]

FlappyInit ==
    [bird |-> BirdInit,      \* bird.current
     pipes |-> << >>,        \* pipes.current: x, gapY, passed (and an id)
     lastPipeSpawn |-> 0,    \* lastPipeSpawn.current
     justJumped |-> FALSE,   \* justJumped.current
     nextId |-> 1,           \* the id of the next pipe
     fresh |-> TRUE,         \* no frame has run since resetGameState
     jumps |-> 0,            \* times the velocity was set to jumpForce
     frames |-> << >>,       \* per frame: jump input, jumped, isPlaying, fresh
     awards |-> << >>,       \* ids of the pipes addScore(1) was called for
     removed |-> << >>]      \* ids of the pipes the filter has dropped

\* resetGameState of flappy bird, lines 98-104
flappyResetGameState(f, ps) ==
    [flappy |-> [f EXCEPT !.bird = BirdInit, !.pipes = << >>,
                          !.lastPipeSpawn = 0, !.justJumped = FALSE,
                          !.fresh = TRUE],
     particles |-> clear(ps)]

\* the frame callback as it runs
Flying(f, ps, sh, fx) ==
    [flappy |-> f, particles |-> ps, shakeState |-> sh, effect |-> fx,
     trace |-> << >>, drawn |-> << >>, ended |-> FALSE]

\* jump(), lines 112-127; isPlaying is the one of the render that made it
jump(g, isPlaying, s) ==
    IF ~isPlaying THEN g
    ELSE [g EXCEPT
            !.flappy.bird.vy = Z(FlappyConfig.jumpForce),
            !.flappy.jumps = @ + 1,
            !.particles =
                emit(@, Z(FlappyConfig.birdX), g.flappy.bird.y,
                     [count |-> Z(5), colors |-> <<"#ffff00", "#ffffff">>,
                      speedMin |-> Z(20), speedMax |-> Z(50),
                      direction |-> One, spread |-> Q(1, 4),
                      life |-> Z(200), gravity |-> Zero], s),
            !.trace = Append(@, "jump")]

\* an input phase that jumps in every frame in which the input is active
flappyInputNoLatch(g, jumpPressed, isPlaying, s) ==
    CHOOSE r \in
        { [jumped EXCEPT
             !.flappy.justJumped = jumpPressed,
             !.flappy.fresh = FALSE,
             !.flappy.frames =
                 Append(@, [pressed |-> jumpPressed,
                            jumped |-> jumped.flappy.jumps > g.flappy.jumps,
                            playing |-> isPlaying, fresh |-> g.flappy.fresh])]
          : jumped \in {IF jumpPressed THEN jump(g, isPlaying, s) ELSE g} } : TRUE

\* INPUT, lines 133-141
flappyInput(g, jumpPressed, isPlaying, s) ==
    LET jumping == jumpPressed /\ ~g.flappy.justJumped
    IN  CHOOSE r \in
            { [jumped EXCEPT
                 !.flappy.justJumped = IF ~jumpPressed THEN FALSE
                                       ELSE IF jumping THEN TRUE ELSE @,
                 !.flappy.fresh = FALSE,
                 !.flappy.frames =
                     Append(@, [pressed |-> jumpPressed,
                                jumped |-> jumped.flappy.jumps > g.flappy.jumps,
                                playing |-> isPlaying, fresh |-> g.flappy.fresh])]
              : jumped \in {IF jumping THEN jump(g, isPlaying, s) ELSE g} } : TRUE

\* UPDATE BIRD, lines 143-146; the rotation is in multiples of pi
updateBird(bird, dt) ==
    LET vy == QAdd(bird.vy, QMul(Z(FlappyConfig.gravity), dt))
    IN  [y |-> QAdd(bird.y, QMul(vy, dt)),
         vy |-> vy,
         rotation |-> QMul(QMin(QMax(QDiv(vy, Z(400)), Q(-1, 2)), Q(1, 2)), Q(1, 4))]

\* SPAWN PIPES, lines 148-154
spawnPipes(f, deltaTime, s) ==
    LET lastPipeSpawn == f.lastPipeSpawn + deltaTime
        gapY == QAdd(Z(100),
                     QMul(MathRandom(s, 0),
                          Z(FlappyConfig.height - 200 - FlappyConfig.pipeGap)))
    IN  IF lastPipeSpawn >= FlappyConfig.pipeSpawnInterval
        THEN [f EXCEPT
                !.pipes = Append(@, [id |-> f.nextId, x |-> Z(FlappyConfig.width),
                                     gapY |-> gapY, passed |-> FALSE]),
                !.nextId = @ + 1,
                !.lastPipeSpawn = 0]
        ELSE [f EXCEPT !.lastPipeSpawn = lastPipeSpawn]

\* a filter callback that scores without marking the pipe as passed
passPipeNoMark(g, pipe, dt, item, s) ==
    LET x == QSub(pipe.x, QMul(Z(FlappyConfig.pipeSpeed), dt))
        scores == ~pipe.passed
                    /\ QLt(QAdd(x, Z(FlappyConfig.pipeWidth)), Z(FlappyConfig.birdX))
        moved == [pipe EXCEPT !.x = x]
    IN  CHOOSE r \in
            { IF QLt(Z(-FlappyConfig.pipeWidth), x)
              THEN [scored EXCEPT !.flappy.pipes = Append(@, moved)]
              ELSE [scored EXCEPT !.flappy.removed = Append(@, pipe.id)]
              : scored \in
                  { IF scores
                    THEN [g EXCEPT
                            !.effect.updates = @ \o addScore(1, item).updates,
                            !.flappy.awards = Append(@, pipe.id),
                            !.particles = sparkle(@, Z(FlappyConfig.birdX),
                                                  g.flappy.bird.y, NoOptions, s),
                            !.trace = Append(@, "addScore")]
                    ELSE g } } : TRUE

\* the callback of pipes.current.filter, lines 157-169, for one pipe: the
\* pipes it keeps are appended to g.flappy.pipes
passPipe(g, pipe, dt, item, s) ==
    LET x == QSub(pipe.x, QMul(Z(FlappyConfig.pipeSpeed), dt))
        scores == ~pipe.passed
                    /\ QLt(QAdd(x, Z(FlappyConfig.pipeWidth)), Z(FlappyConfig.birdX))
        moved == [pipe EXCEPT !.x = x, !.passed = @ \/ scores]
    IN  CHOOSE r \in
            { IF QLt(Z(-FlappyConfig.pipeWidth), x)
              THEN [scored EXCEPT !.flappy.pipes = Append(@, moved)]
              ELSE [scored EXCEPT !.flappy.removed = Append(@, pipe.id)]
              : scored \in
                  { IF scores
                    THEN [g EXCEPT
                            !.effect.updates = @ \o addScore(1, item).updates,
                            !.flappy.awards = Append(@, pipe.id),
                            !.particles = sparkle(@, Z(FlappyConfig.birdX),
                                                  g.flappy.bird.y, NoOptions, s),
                            !.trace = Append(@, "addScore")]
                    ELSE g } } : TRUE

RECURSIVE pipesLoop(_, _, _, _, _)
pipesLoop(g, todo, dt, item, s) ==
    IF todo = << >> THEN g
    ELSE pipesLoop(passPipe(g, Head(todo), dt, item, s), Tail(todo), dt, item, s)

\* UPDATE PIPES, lines 156-169
updatePipes(g, dt, item, s) ==
    pipesLoop([g EXCEPT !.flappy.pipes = << >>], g.flappy.pipes, dt, item, s)

birdRect(bird) ==
    [x |-> Z(FlappyConfig.birdX - FlappyConfig.birdSize \div 2),
     y |-> QSub(bird.y, Z(FlappyConfig.birdSize \div 2)),
     width |-> Z(FlappyConfig.birdSize), height |-> Z(FlappyConfig.birdSize)]

topPipe(pipe) ==
    [x |-> pipe.x, y |-> Zero, width |-> Z(FlappyConfig.pipeWidth), height |-> pipe.gapY]

bottomPipe(pipe) ==
    [x |-> pipe.x, y |-> QAdd(pipe.gapY, Z(FlappyConfig.pipeGap)),
     width |-> Z(FlappyConfig.pipeWidth), height |-> Z(FlappyConfig.height)]

\* the bird is out of the screen or on a pipe, lines 180 and 188-192
birdCollides(f) ==
    \/ QLt(f.bird.y, Z(FlappyConfig.birdSize \div 2))
    \/ QLt(Z(FlappyConfig.height - FlappyConfig.birdSize \div 2), f.bird.y)
    \/ \E i \in 1 .. Len(f.pipes) :
           \/ rectsCollide(birdRect(f.bird), topPipe(f.pipes[i]))
           \/ rectsCollide(birdRect(f.bird), bottomPipe(f.pipes[i]))

\* COLLISION DETECTION, lines 171-199: shakeLarge, explode, end({ score })
\* and return
flappyCollisions(g, sc, hs, item, s) ==
    LET fin == end([score |-> sc], sc, hs, item)
    IN  IF birdCollides(g.flappy)
        THEN [g EXCEPT
                !.shakeState = shakeLarge(@),
                !.particles =
                    explode(@, Z(FlappyConfig.birdX), g.flappy.bird.y,
                            [colors |-> <<"#ffff00", "#ff8800", "#ff0000">>], s),
                !.effect = Effect(@.updates \o fin.updates, fin.posted, fin.storage),
                !.trace = Append(@, "end"),
                !.ended = TRUE]
        ELSE g

\* the canvas context after a frame that has drawn, lines 262-266:
\* restore() has brought back what save() found, and drawText has set the
\* fill style for the score
flappyHud(c) == [c EXCEPT !.fillStyle = "#ffffff"]

\* RENDER, lines 206-271: background and pipes (world), the bird (world,
\* in a block of its own that translates to the bird), particles.render
\* and the ground (world) between save() + shake.apply() and restore(),
\* then the score
flappyRender(g) ==
    LET pipes == Draw(Draw(shakeApply(CtxSave(CtxInit), g.shakeState), "clear"), "world")
        bird == CtxRestore(Draw(CtxTranslate(CtxSave(pipes), Z(FlappyConfig.birdX),
                                             g.flappy.bird.y),
                                "world"))
    IN  [g EXCEPT
           !.trace = Append(@, "render"),
           !.drawn = Draw(CtxRestore(Draw(Draw(bird, "particles"), "world")), "hud").drawn]

\* the frame callback of flappy bird, lines 130-272; sc, hs and isPlaying
\* are those of the render that created it
flappyFrame(f, ps, sh, in, isPlaying, sc, hs, item, s) ==
    LET dt == Q(in.deltaTime, 1000)
    IN  CHOOSE r \in
            { IF g5.ended THEN g5
              ELSE flappyRender(
                     [g5 EXCEPT !.particles = update(@, Z(in.deltaTime)),
                                !.shakeState = shakeUpdate(@, Z(in.deltaTime), s),
                                !.trace = @ \o <<"particles.update", "shake.update">>])
              : g5 \in
                  { flappyCollisions(g4, sc, hs, item, s)
                    : g4 \in
                        { updatePipes(g3, dt, item, s)
                          : g3 \in
                              { [g1 EXCEPT
                                   !.flappy = spawnPipes([@ EXCEPT !.bird = updateBird(@, dt)],
                                                         in.deltaTime, s)]
                                : g1 \in
                                    {flappyInput(Flying(f, ps, sh, Effect(<< >>, << >>, item)),
                                                 in.jumpPressed, isPlaying, s)} } } } } : TRUE

(***************************************************************************)
(* The template game (src/unnamed/part_008) and the basic template, which  *)
(* uses neither particles nor screen shake (src/unnamed/part_009): the     *)
(* refs of the game and its frame callback.  The canvas has the size of    *)
(* CONFIG; the sounds are left out.  Neither template calls end().         *)
(***************************************************************************)
TemplateConfig ==
    [width |-> 800, height |-> 600, playerSpeed |-> 300, playerSize |-> 20,
     targetSize |-> 15, targetSpawnRate |-> 800, maxTargets |-> 12]

BasicConfig == [TemplateConfig EXCEPT !.targetSpawnRate = 1000, !.maxTargets = 10]

TargetColors == <<"#00d4ff", "#00ff88", "#ff4444", "#ffaa00", "#aa44ff">>

\* the refs of the game as the component creates them
TemplateInit ==
    [player |-> [x |-> Q(TemplateConfig.width, 2), y |-> Q(TemplateConfig.height, 2)],
     targets |-> << >>, lastSpawn |-> 0, targetIdCounter |-> 0]

\* spawnTarget of either template: cfg is its CONFIG and margin what it
\* keeps a target away from the edges beyond targetSize
newTarget(t, cfg, margin, s) ==
    IF Len(t.targets) >= cfg.maxTargets THEN t
    ELSE [t EXCEPT
            !.targetIdCounter = @ + 1,
            !.targets =
                Append(@, [id |-> t.targetIdCounter,
                           x |-> Z(randomInt(MathRandom(s, 0), cfg.targetSize + margin,
                                             cfg.width - cfg.targetSize - margin)),
                           y |-> Z(randomInt(MathRandom(s, 1), cfg.targetSize + margin,
                                             cfg.height - cfg.targetSize - margin)),
                           radius |-> cfg.targetSize,
                           color |-> TargetColors[randomInt(MathRandom(s, 2), 0,
                                                            Len(TargetColors) - 1) + 1]])]

\* spawnTarget, part_008 131-143
spawnTarget(t, s) == newTarget(t, TemplateConfig, 20, s)

\* spawnTarget, part_009 116-128
basicSpawnTarget(t, s) == newTarget(t, BasicConfig, 0, s)

\* resetGameState, part_008 145-151
templateResetGameState(t, ps) ==
    [template |-> TemplateInit, particles |-> clear(ps)]

\* resetGameState, part_009 130-135
basicResetGameState(t) == TemplateInit

\* utils.circlesCollide: distance(a, b) < radiusA + radiusB
circlesCollide(a, radiusA, b, radiusB) ==
    HypotLt(QSub(b.x, a.x), QSub(b.y, a.y), Z(radiusA + radiusB))

\* the frame callback as it runs: refs, effects, the calls made on the hook
\* and what it has drawn
Collecting(t, ps, sh, fx) ==
    [template |-> t, particles |-> ps, shakeState |-> sh, effect |-> fx,
     trace |-> << >>, drawn |-> << >>, ended |-> FALSE]

\* Player movement by keyboard and towards the pointer, and Keep player in
\* bounds, part_008 165-193 (part_009 151-179)
movePlayer(pl, cfg, in) ==
    LET speed == QMul(Z(cfg.playerSpeed), Q(in.deltaTime, 1000))
        x1 == IF Pressed(in.keys, "ArrowLeft", "KeyA") THEN QSub(pl.x, speed) ELSE pl.x
        x2 == IF Pressed(in.keys, "ArrowRight", "KeyD") THEN QAdd(x1, speed) ELSE x1
        y1 == IF Pressed(in.keys, "ArrowUp", "KeyW") THEN QSub(pl.y, speed) ELSE pl.y
        y2 == IF Pressed(in.keys, "ArrowDown", "KeyS") THEN QAdd(y1, speed) ELSE y1
        dx == QSub(Z(in.mouse.x), x2)
        dy == QSub(Z(in.mouse.y), y2)
        towards == in.mouse.isDown /\ ~HypotLe(dx, dy, Z(5))
        x3 == IF towards THEN QAdd(x2, Along(dx, dy, speed)) ELSE x2
        y3 == IF towards THEN QAdd(y2, Along(dy, dx, speed)) ELSE y2
    IN  [x |-> clamp(x3, Z(cfg.playerSize), Z(cfg.width - cfg.playerSize)),
         y |-> clamp(y3, Z(cfg.playerSize), Z(cfg.height - cfg.playerSize))]

MoveKeys ==
    {"ArrowLeft", "ArrowRight", "ArrowUp", "ArrowDown", "KeyW", "KeyA", "KeyS", "KeyD"}

\* a movement key is held or the pointer is down
Moving(in) == in.keys \cap MoveKeys # {} \/ in.mouse.isDown

\* Player trail particles, part_008 195-201
playerTrail(g, in, isPlaying, s) ==
    IF isPlaying /\ Moving(in)
    THEN [g EXCEPT !.particles =
                       trail(@, g.template.player.x, g.template.player.y,
                             [colors |-> <<"#00d4ff", "#ffffff">>, gravity |-> Zero], s)]
    ELSE g

\* Spawn targets periodically, part_008 203-208 (part_009 181-186); spawned
\* is the template after spawnTarget()
spawnPeriodically(t, cfg, deltaTime, spawned) ==
    IF t.lastSpawn + deltaTime >= cfg.targetSpawnRate
    THEN [spawned EXCEPT !.lastSpawn = 0]
    ELSE [t EXCEPT !.lastSpawn = @ + deltaTime]

\* the callback of targets.current.filter for one target, part_008 211-229:
\* the targets it keeps are appended to g.template.targets
collectTarget(g, target, item, s) ==
    IF circlesCollide(g.template.player, TemplateConfig.playerSize, target, target.radius)
    THEN [g EXCEPT
            !.effect.updates = @ \o addScore(10, item).updates,
            !.shakeState = shakeSmall(@),
            !.particles = explode(@, target.x, target.y,
                                  [count |-> Z(15),
                                   colors |-> <<target.color, "#ffffff">>], s),
            !.trace = Append(@, "addScore")]
    ELSE [g EXCEPT !.template.targets = Append(@, target)]

\* the same callback of the basic template, part_009 189-201
basicCollectTarget(g, target, item) ==
    IF circlesCollide(g.template.player, BasicConfig.playerSize, target, target.radius)
    THEN [g EXCEPT !.effect.updates = @ \o addScore(10, item).updates,
                   !.trace = Append(@, "addScore")]
    ELSE [g EXCEPT !.template.targets = Append(@, target)]

RECURSIVE targetsLoop(_, _, _, _)
targetsLoop(g, todo, item, s) ==
    IF todo = << >> THEN g
    ELSE CHOOSE r \in
             { targetsLoop(g1, Tail(todo), item, s)
               : g1 \in {collectTarget(g, Head(todo), item, s)} } : TRUE

RECURSIVE basicTargetsLoop(_, _, _)
basicTargetsLoop(g, todo, item) ==
    IF todo = << >> THEN g
    ELSE CHOOSE r \in
             { basicTargetsLoop(g1, Tail(todo), item)
               : g1 \in {basicCollectTarget(g, Head(todo), item)} } : TRUE

\* RENDER PHASE with the HUD drawn before restore()
templateRenderHudInside(g) ==
    [g EXCEPT
       !.trace = Append(@, "render"),
       !.drawn =
           CtxRestore(
             Draw(Draw(Draw(Draw(Draw(shakeApply(CtxSave(CtxInit), g.shakeState),
                                      "clear"), "world"), "particles"), "world"),
                  "hud")).drawn]

\* RENDER PHASE, part_008 235-282: background and targets (world),
\* particles.render and the player (world) between save() + shake.apply()
\* and restore(), then the score, the best score and the instructions
templateRender(g) ==
    [g EXCEPT
       !.trace = Append(@, "render"),
       !.drawn =
           Draw(CtxRestore(
                  Draw(Draw(Draw(Draw(shakeApply(CtxSave(CtxInit), g.shakeState),
                                      "clear"), "world"), "particles"), "world")),
                "hud").drawn]

\* RENDER PHASE of the basic template, part_009 203-235: background,
\* targets and player (world), then the texts, with no save() and no shake
basicRender(g) ==
    [g EXCEPT
       !.trace = Append(@, "render"),
       !.drawn = Draw(Draw(Draw(Draw(CtxInit, "clear"), "world"), "world"), "hud").drawn]

\* the canvas context after a frame of either template: the last drawText
\* has set the fill style for the instructions
templateHud(c) == [c EXCEPT !.fillStyle = "#8b8b9e"]

\* the frame callback of the template, part_008 162-284; keys are the keys
\* held, mouse is the mouse state and isPlaying the one of the render that
\* created the callback
templateFrame(t, ps, sh, in, isPlaying, item, s) ==
    CHOOSE r \in
        { templateRender(
            [g2 EXCEPT !.particles = update(@, Z(in.deltaTime)),
                       !.shakeState = shakeUpdate(@, Z(in.deltaTime), s),
                       !.trace = @ \o <<"particles.update", "shake.update">>])
          : g2 \in
            { targetsLoop([g1 EXCEPT !.template.targets = << >>],
                          g1.template.targets, item, s)
              : g1 \in
                { [g0 EXCEPT !.template =
                                 spawnPeriodically(@, TemplateConfig, in.deltaTime,
                                                   spawnTarget(@, s))]
                  : g0 \in
                    { playerTrail(
                        Collecting([t EXCEPT !.player =
                                                 movePlayer(@, TemplateConfig, in)],
                                   ps, sh, Effect(<< >>, << >>, item)),
                        in, isPlaying, s) } } } } : TRUE

\* the frame callback of the basic template, part_009 148-237
basicFrame(t, ps, sh, in, item, s) ==
    CHOOSE r \in
        { basicRender(
            basicTargetsLoop([g1 EXCEPT !.template.targets = << >>],
                             g1.template.targets, item))
          : g1 \in
            { Collecting(
                spawnPeriodically([t EXCEPT !.player = movePlayer(@, BasicConfig, in)],
                                  BasicConfig, in.deltaTime,
                                  basicSpawnTarget(
                                      [t EXCEPT !.player = movePlayer(@, BasicConfig, in)],
                                      s)),
                ps, sh, Effect(<< >>, << >>, item)) } } : TRUE

Init ==
    /\ particles = << >>
    /\ shakeState = ShakeInit
    /\ state = IDLE
    /\ score = 0
    /\ result = NoResult
    /\ highScore = 0
    /\ pending = << >>
    /\ storage = NoItem
    /\ posted = <<[type |-> "GAME_READY"]>>
    /\ called = << >>
    /\ loopLive = FALSE
    /\ player = PlayerInit
    /\ world = WorldInit
    /\ breaker = BreakerInit
    /\ pointer = PointerInit
    /\ game = "shooter"
    /\ template = TemplateInit
    /\ ctx = ContextInit
    /\ raf = RafInit
    /\ flappy = FlappyInit
    /\ last = Call("init", Zero, Zero, NoOptions, Zero)
    /\ steps = 0

(***************************************************************************)
(* Calls made on the particle system.                                      *)
(***************************************************************************)
\* the call as recorded: with the size of the collection it found
Made(c, ps) == [c EXCEPT !.lenBefore = Len(ps)]

Seeded(c, s) == [c EXCEPT !.seed = s]

EmitCalls ==
    { Call("emit", Zero, Zero,
           [count |-> Z(15), life |-> Z(600), lifeVariance |-> Zero, gravity |-> Zero,
            friction |-> One, speedMin |-> Z(100), speedMax |-> Z(100)], Zero),
      Call("emit", Z(40), Z(30), NoOptions, Zero),
      Seeded(Call("emit", Z(40), Z(30), NoOptions, Zero), 1),
      Call("emit", Z(10), Z(20), [count |-> Z(0)], Zero),
      Call("emit", Z(10), Z(20), [count |-> Undefined], Zero),
      Call("emit", Z(5), Z(7), [count |-> Infinity], Zero),
      Call("emit", Z(5), Z(5), [count |-> Z(1), life |-> Undefined], Zero),
      Call("emit", Z(5), Z(5),
           [count |-> Z(1), speedMin |-> Undefined, colors |-> << >>], Zero),
      Call("emit", Z(5), Z(5),
           [count |-> Z(2), life |-> Z(100), lifeVariance |-> Z(200)], Zero),
      Seeded(Call("emit", Z(8), Z(30),
                  [count |-> Z(3), colors |-> <<"#ffffff">>, friction |-> Q(1, 2)],
                  Zero), 1) }

PresetCalls ==
    { Call("trail", Z(8), Z(30), NoOptions, Zero),
      Call("explode", Z(40), Z(52), NoOptions, Zero),
      Seeded(Call("explode", Z(20), Z(10),
                  [count |-> Z(15), colors |-> <<"#ff4444", "#ff8800", "#ffff00">>],
                  Zero), 1),
      Call("sparkle", Z(8), Z(30), NoOptions, Zero) }

ParticleDeltas == { Zero, Z(300), Z(600) }

PEmit(c) ==
    /\ steps < MaxSteps
    /\ emitReturns(c.options)
    /\ particles' = emit(particles, c.x, c.y, c.options, c.seed)
    /\ last' = Made(c, particles)
    /\ steps' = steps + 1
    /\ UNCHANGED <<shakeState, gameVars, ctx, raf, flappy>>

PPreset(c) ==
    /\ steps < MaxSteps
    /\ emitReturns(c.options)
    /\ particles' = CASE c.op = "trail" -> trail(particles, c.x, c.y, c.options, c.seed)
                      [] c.op = "explode" -> explode(particles, c.x, c.y, c.options, c.seed)
                      [] c.op = "sparkle" -> sparkle(particles, c.x, c.y, c.options, c.seed)
    /\ last' = Made(c, particles)
    /\ steps' = steps + 1
    /\ UNCHANGED <<shakeState, gameVars, ctx, raf, flappy>>

PUpdate(deltaTime) ==
    /\ steps < MaxSteps
    /\ particles' = update(particles, deltaTime)
    /\ last' = Made(Call("update", Zero, Zero, NoOptions, deltaTime), particles)
    /\ steps' = steps + 1
    /\ UNCHANGED <<shakeState, gameVars, ctx, raf, flappy>>

PClear ==
    /\ steps < MaxSteps
    /\ particles' = clear(particles)
    /\ last' = Made(Call("clear", Zero, Zero, NoOptions, Zero), particles)
    /\ steps' = steps + 1
    /\ UNCHANGED <<shakeState, gameVars, ctx, raf, flappy>>

NextParticles ==
    \/ \E c \in EmitCalls : PEmit(c)
    \/ \E c \in PresetCalls : PPreset(c)
    \/ \E d \in ParticleDeltas : PUpdate(d)
    \/ PClear

SpecParticles == Init /\ [][NextParticles]_vars

(***************************************************************************)
(* Calls made on the screen shake.                                         *)
(***************************************************************************)
ShakeCalls ==
    { Call("shake", Zero, Zero, NoOptions, Zero),
      Call("shake", Zero, Zero, [intensity |-> Z(20), duration |-> Z(200)], Zero),
      Call("shake", Zero, Zero, [intensity |-> Z(5), duration |-> Z(50)], Zero),
      Call("shake", Zero, Zero,
           [intensity |-> Z(10), duration |-> Z(100), decay |-> One], Zero),
      Call("shake", Zero, Zero,
           [intensity |-> Z(12), duration |-> Z(120), decay |-> Q(1, 2)], Zero),
      Call("shake", Zero, Zero,
           [intensity |-> Q(1, 20), duration |-> Z(100), decay |-> One], Zero),
      Call("shake", Zero, Zero, [intensity |-> Undefined, duration |-> Z(150)], Zero) }

ShakePresets == { "shakeSmall", "shakeMedium", "shakeLarge" }

ShakeDeltas == { Zero, Z(50), Z(60) }

SShake(c) ==
    /\ steps < MaxShakeSteps
    /\ shakeState' = shake(shakeState, c.options)
    /\ last' = c
    /\ steps' = steps + 1
    /\ UNCHANGED <<particles, gameVars, ctx, raf, flappy>>

SPreset(name) ==
    /\ steps < MaxShakeSteps
    /\ shakeState' = CASE name = "shakeSmall" -> shakeSmall(shakeState)
                       [] name = "shakeMedium" -> shakeMedium(shakeState)
                       [] name = "shakeLarge" -> shakeLarge(shakeState)
    /\ last' = Call(name, Zero, Zero, NoOptions, Zero)
    /\ steps' = steps + 1
    /\ UNCHANGED <<particles, gameVars, ctx, raf, flappy>>

SUpdate(deltaTime, s) ==
    /\ steps < MaxShakeSteps
    /\ shakeState' = shakeUpdate(shakeState, deltaTime, s)
    /\ last' = Call("shakeUpdate", Zero, Zero, NoOptions, deltaTime)
    /\ steps' = steps + 1
    /\ UNCHANGED <<particles, gameVars, ctx, raf, flappy>>

NextShake ==
    \/ \E c \in ShakeCalls : SShake(c)
    \/ \E name \in ShakePresets : SPreset(name)
    \/ \E d \in ShakeDeltas, s \in Seeds : SUpdate(d, s)

SpecShake == Init /\ [][NextShake]_vars

(***************************************************************************)
(* The game: clicks on the controls, animation frames, renders and effect  *)
(* flushes.  A click is a discrete event: React renders its updates and    *)
(* runs the effects of that render before the browser does anything else.  *)
(* Updates queued inside an animation frame are rendered later, and the    *)
(* effects of that render (useGameLoop's cleanup among them) later still;  *)
(* an animation frame already requested may fire in between.               *)
(***************************************************************************)
\* the inputs of a frame: elapsed milliseconds, the keys held down, and the
\* seed of its draws
FrameInput(deltaTime, keys, seed) ==
    [deltaTime |-> deltaTime, keys |-> keys, seed |-> seed]

\* the seed whose first draws are 0 and 1/2: the enemy it spawns is a basic
\* one in the player's column (x = 300), its explosion shakes to the left,
\* and an enemy destroyed drops a power-up of type power
GameSeed == 0

\* the same draws with a roll of 1/2 (an enemy destroyed drops nothing) and
\* with a roll of 1/16 and then 1/4 (it drops a power-up of type life)
NoDropSeed == GameSeed + 49
LifeSeed == GameSeed + 39 * 49

\* Frames from Start Game on.  An enemy spawned by a frame of 5000 ms has
\* moved to the player (y = 720) by the end of that frame; one spawned by a
\* frame of 4700 ms is at y = 675 and, 260 ms later, on the player, whose
\* shake that frame draws; one spawned by a frame of 3600 ms is at y = 510
\* and, 260 ms later, at y = 549, where the bullet fired in that frame
\* (y = 544) hits it.  An enemy that has hit the player in a frame of
\* 5000 ms and is marked for removal is back at the player after frames of
\* 6400 and 5000 ms, together with the enemy the latter spawns.  No
\* particle outlives three frames of 260 ms or more (a life is below
\* 780 ms).
FrameInputs ==
    { FrameInput(5000, {}, GameSeed),
      FrameInput(3600, {}, GameSeed),
      FrameInput(4700, {}, GameSeed),
      FrameInput(6400, {}, GameSeed),
      FrameInput(260, {"Space"}, GameSeed),
      FrameInput(260, {"Space"}, NoDropSeed),
      FrameInput(260, {"Space"}, LifeSeed) }

GameCall(op, dt) == [Made(Call(op, Zero, Zero, NoOptions, dt), particles) EXCEPT !.from = state]

\* a call of a lifecycle operation, as recorded
Op(op, points) == [op |-> op, points |-> points]

\* the lifecycle operations behind the updates a frame callback has queued:
\* addScore queues one score updater, end queues one setState(GAME_OVER)
RECURSIVE CallsOf(_)
CallsOf(updates) ==
    IF updates = << >> THEN << >>
    ELSE LET u == Head(updates)
         IN  (IF u.var = "score" /\ u.kind = "add" THEN <<Op("addScore", u.val)>>
              ELSE IF u.var = "state" /\ u.val = GAME_OVER THEN <<Op("end", 0)>>
              ELSE << >>) \o CallsOf(Tail(updates))

\* a click handler has run operation op with effect fx (posting its
\* messages), then its render (running the updaters queued before the click,
\* which post theirs) and its effects
Clicked(op, fx) ==
    LET now == Render(Committed, pending \o fx.updates)
    IN  /\ state' = now.state
        /\ score' = now.score
        /\ result' = now.result
        /\ highScore' = now.highScore
        /\ pending' = << >>
        /\ storage' = fx.storage
        /\ posted' = posted \o fx.posted \o ScoreMessages(Committed, pending)
        /\ called' = Append(called, Op(op, 0))
        /\ loopLive' = LoopEffect(now.state = PLAYING)
        /\ UNCHANGED <<game, template, breaker, pointer, ctx, raf, flappy>>

\* play() called from the click handler handlePlay, with the render and the
\* effects that follow the click
PlayClicked ==
    LET now == Render(Committed, pending \o play(storage).updates)
    IN  /\ state' = now.state
        /\ score' = now.score
        /\ result' = now.result
        /\ highScore' = now.highScore
        /\ pending' = << >>
        /\ storage' = play(storage).storage
        /\ posted' = posted \o play(storage).posted \o ScoreMessages(Committed, pending)
        /\ called' = Append(called, Op("play", 0))
        /\ loopLive' = LoopEffect(now.state = PLAYING)

\* Start Game and Play Again: handlePlay
ClickPlay(b) ==
    /\ steps < MaxGameSteps
    /\ b \in Buttons
    /\ Clicked("play", play(storage))
    /\ player' = resetGameState(particles, world).player
    /\ world' = resetGameState(particles, world).world
    /\ particles' = resetGameState(particles, world).particles
    /\ last' = GameCall(b, Zero)
    /\ steps' = steps + 1
    /\ UNCHANGED shakeState

ClickPause ==
    /\ steps < MaxGameSteps
    /\ "pause" \in Buttons
    /\ Clicked("pause", pause(storage))
    /\ last' = GameCall("pause", Zero)
    /\ steps' = steps + 1
    /\ UNCHANGED <<particles, shakeState, player, world>>

ClickResume ==
    /\ steps < MaxGameSteps
    /\ "resume" \in Buttons
    /\ Clicked("resume", resume(storage))
    /\ last' = GameCall("resume", Zero)
    /\ steps' = steps + 1
    /\ UNCHANGED <<particles, shakeState, player, world>>

ClickReset ==
    /\ steps < MaxGameSteps
    /\ "reset" \in Buttons
    /\ Clicked("reset", reset(storage))
    /\ last' = GameCall("reset", Zero)
    /\ steps' = steps + 1
    /\ UNCHANGED <<particles, shakeState, player, world>>

\* an animation frame of the loop fires
Frame(in) ==
    /\ steps < MaxGameSteps
    /\ loopLive
    /\ \E r \in {frame(particles, shakeState, player, world, in,
                      score, highScore, storage, in.seed)} :
           /\ ctx' = IF r.ended THEN ctx ELSE hudContext(ctx)
           /\ particles' = r.particles
           /\ shakeState' = r.shakeState
           /\ player' = r.player
           /\ world' = r.world
           /\ pending' = pending \o r.effect.updates
           /\ posted' = posted \o r.effect.posted
           /\ called' = called \o CallsOf(r.effect.updates)
           /\ storage' = r.effect.storage
           /\ last' = Spread([GameCall("frame", Z(in.deltaTime))
                                  EXCEPT !.trace = r.trace, !.drawn = r.drawn],
                              [keys |-> in.keys, checked |-> r.checked,
                               damage |-> r.damage, awards |-> r.awards])
    /\ steps' = steps + 1
    /\ UNCHANGED <<game, template, state, score, result, highScore, loopLive, breaker,
                   pointer, raf, flappy>>

\* React renders the updates queued by animation frames
RenderQueued ==
    /\ steps < MaxGameSteps
    /\ pending # << >>
    /\ LET now == Render(Committed, pending)
       IN  /\ state' = now.state
           /\ score' = now.score
           /\ result' = now.result
           /\ highScore' = now.highScore
    /\ posted' = posted \o ScoreMessages(Committed, pending)
    /\ pending' = << >>
    /\ last' = GameCall("render", Zero)
    /\ steps' = steps + 1
    /\ UNCHANGED <<game, template, particles, shakeState, player, world, storage, loopLive, called,
                   breaker, pointer, ctx, raf, flappy>>

\* React runs the effects of that render: useGameLoop's cleanup cancels the
\* requested frame when the game is no longer playing
FlushEffects ==
    /\ steps < MaxGameSteps
    /\ loopLive # LoopEffect(state = PLAYING)
    /\ loopLive' = LoopEffect(state = PLAYING)
    /\ last' = GameCall("flushEffects", Zero)
    /\ steps' = steps + 1
    /\ UNCHANGED <<game, template, particles, shakeState, player, world, state, score,
                   result, highScore, pending, storage, posted, called, breaker, pointer,
                   ctx, raf, flappy>>

Next ==
    \/ \E b \in {"start", "playAgain"} : ClickPlay(b)
    \/ ClickPause
    \/ ClickResume
    \/ ClickReset
    \/ \E in \in FrameInputs : Frame(in)
    \/ RenderQueued
    \/ FlushEffects

Spec == Init /\ [][Next]_vars

(***************************************************************************)
(* Properties of the particle system (checked under SpecParticles).        *)
(***************************************************************************)
Indices(ps) == 1 .. Len(ps)

\* the fields of a particle that no operation changes after emit
SameParticle(p, q) ==
    /\ p.maxLife = q.maxLife /\ p.size = q.size /\ p.color = q.color
    /\ p.gravity = q.gravity /\ p.friction = q.friction
    /\ p.shrink = q.shrink /\ p.fade = q.fade

\* C1: every particle in the collection has 0 < life <= maxLife, whatever
\* the options it was emitted with.
C1_LifePositiveAlways ==
    \A i \in Indices(particles) :
        /\ QLt(Zero, particles[i].life)
        /\ QLe(particles[i].life, particles[i].maxLife)

\* C3 as stated: update(0) leaves every particle with life > 0 in the
\* collection with life, x, y, vx and vy unchanged, whatever its friction.
C3_UpdateZeroIdentity ==
    [][(last'.op = "update" /\ last'.dt = Zero) =>
          particles' = SelectSeq(particles, LAMBDA p : QLt(Zero, p.life))]_vars

\* C3 amended: update(0) keeps every particle with life > 0, leaves its
\* life unchanged and multiplies vx and vy by its friction: the velocity is
\* unchanged only when friction = 1 or the velocity is 0.  It leaves x and y
\* unchanged when the velocity is a number (0 times NaN is NaN).  (The
\* particles it removes are those with life <= 0; one whose life is NaN is
\* kept and treated as the others are.)
C3_UpdateZero ==
    [][(last'.op = "update" /\ last'.dt = Zero) =>
          \A alive \in {SelectSeq(particles, LAMBDA p : ~ QLe(p.life, Zero))} :
              /\ Len(particles') = Len(alive)
              /\ \A i \in Indices(alive) :
                    \A p \in {alive[i]}, q \in {particles'[i]} :
                        /\ q.life = p.life
                        /\ q.vx = TScale(p.vx, Coalesce(p.friction, One))
                        /\ q.vy = TScale(p.vy, Coalesce(p.friction, One))
                        /\ Finite(p.vx.q) => q.x = p.x
                        /\ Finite(p.vy.q) => q.y = p.y
                        /\ SameParticle(p, q)]_vars

C3_Witness ==
    /\ last.op = "update"
    /\ last.dt = Zero
    /\ \E i \in Indices(particles) :
          /\ particles[i].friction = Q(49, 50)
          /\ particles[i].vx # T(Zero)
    /\ \E i \in Indices(particles) : particles[i].friction = One

\* C4: update(elapsedMs) removes exactly the particles with life <= elapsedMs
\* and keeps, in order and with life reduced by elapsedMs, those with
\* life > elapsedMs; 15 particles of life 600 are all gone after update(600).
\* (A life that is NaN is on neither side of the comparison; the particles
\* removed are those with life <= elapsedMs.)
C4_UpdateRemovesExpired ==
    [][last'.op = "update" =>
          LET kept == SelectSeq(particles, LAMBDA p : ~ QLe(p.life, last'.dt))
          IN  /\ \A i \in Indices(particles) :
                    QLt(last'.dt, particles[i].life) =>
                        \E j \in Indices(particles') :
                            SameParticle(particles'[j], particles[i])
              /\ Len(particles') = Len(kept)
              /\ \A i \in Indices(kept) :
                    /\ SameParticle(particles'[i], kept[i])
                    /\ particles'[i].life = QSub(kept[i].life, last'.dt)
              /\ (/\ last.op = "emit"
                  /\ Opt(last.options, "life", Zero) = last'.dt
                  /\ Opt(last.options, "lifeVariance", One) = Zero
                  /\ last.lenBefore = 0) => particles' = << >>]_vars

C4_Witness ==
    /\ last.op = "update"
    /\ last.dt = Z(600)
    /\ last.lenBefore = 15
    /\ particles = << >>

\* C5: emit(x, y, {count: N}) appends exactly N particles, leaves the
\* particles already in the collection as they were, and each new particle
\* starts at (x, y) with life = maxLife.
C5_EmitAppends ==
    [][(/\ last'.op = "emit"
        /\ "count" \in DOMAIN last'.options
        /\ last'.options.count.d = 1
        /\ last'.options.count.n >= 0) =>
          LET n == last'.options.count.n
          IN  /\ Len(particles') = Len(particles) + n
              /\ SubSeq(particles', 1, Len(particles)) = particles
              /\ \A i \in (Len(particles) + 1) .. Len(particles') :
                    /\ particles'[i].x = T(last'.x)
                    /\ particles'[i].y = T(last'.y)
                    /\ particles'[i].life = particles'[i].maxLife]_vars

C5_Witness ==
    /\ last.op = "emit"
    /\ "count" \in DOMAIN last.options
    /\ last.options.count = Z(3)
    /\ last.lenBefore > 0
    /\ Len(particles) = last.lenBefore + 3

(***************************************************************************)
(* Properties of the screen shake (checked under SpecShake).               *)
(***************************************************************************)
AtRest(st) == st.intensity = Zero /\ st.offsetX = Zero /\ st.offsetY = Zero

\* C2 as stated: a shake() call whose requested intensity r satisfies
\* 0 < r <= c, c the current intensity, leaves the intensity >= c and the
\* duration unchanged.
C2_StackingNeverWeakens ==
    [][(/\ last'.op = "shake"
        /\ QLt(Zero, Opt(last'.options, "intensity", Z(10)))
        /\ QLe(Opt(last'.options, "intensity", Z(10)), shakeState.intensity)) =>
          /\ QLe(shakeState.intensity, shakeState'.intensity)
          /\ shakeState'.duration = shakeState.duration]_vars

\* C8: after every update() call of the shake, |offsetX| <= intensity and
\* |offsetY| <= intensity.
C8_OffsetWithinIntensity ==
    last.op = "shakeUpdate" =>
        /\ QLe(QAbs(shakeState.offsetX), shakeState.intensity)
        /\ QLe(QAbs(shakeState.offsetY), shakeState.intensity)

C8_Witness ==
    /\ last.op = "shakeUpdate"
    /\ QLt(Zero, shakeState.intensity)
    /\ QLt(shakeState.intensity, Z(10))
    /\ QAbs(shakeState.offsetX) = shakeState.intensity

\* C9: an update() call that ends with elapsed >= duration ends with
\* intensity and both offsets 0, and an update() call that finds them 0
\* leaves them 0 (so they stay 0 until the next shake() call).
C9_ZeroAfterDuration ==
    [][last'.op = "shakeUpdate" =>
          ((QLe(shakeState'.duration, shakeState'.elapsed) \/ AtRest(shakeState))
              => AtRest(shakeState'))]_vars

C9_Witness ==
    /\ last.op = "shakeUpdate"
    /\ QLt(Zero, shakeState.duration)
    /\ shakeState.elapsed = Z(110)
    /\ shakeState.duration = Z(100)
    /\ AtRest(shakeState)

\* C10: shake({intensity: r, duration: d, decay: k}) with r > current
\* intensity sets intensity = r, duration = d, elapsed = 0, decay = k
\* (defaults 10, 200, 0.9) and leaves the offsets unchanged.
C10_StrongerReplaces ==
    [][(/\ last'.op = "shake"
        /\ QLt(shakeState.intensity, Opt(last'.options, "intensity", Z(10)))) =>
          shakeState' =
              [intensity |-> Opt(last'.options, "intensity", Z(10)),
               duration |-> Opt(last'.options, "duration", Z(200)),
               elapsed |-> Zero,
               offsetX |-> shakeState.offsetX,
               offsetY |-> shakeState.offsetY,
               decay |-> Opt(last'.options, "decay", Q(9, 10))]]_vars

C10_Witness ==
    /\ last.op = "shake"
    /\ last.options = NoOptions
    /\ shakeState.intensity = Z(10)
    /\ shakeState.duration = Z(200)
    /\ shakeState.elapsed = Zero
    /\ shakeState.decay = Q(9, 10)
    /\ shakeState.offsetX # Zero

\* C11: shake() with requested intensity r <= current intensity c sets the
\* intensity to min(c + 0.5 * r, 2 * r) and leaves duration, decay, elapsed
\* and both offsets unchanged.
C11_StackingFormula ==
    [][(/\ last'.op = "shake"
        /\ QLe(Opt(last'.options, "intensity", Z(10)), shakeState.intensity)) =>
          LET r == Opt(last'.options, "intensity", Z(10))
              c == shakeState.intensity
          IN  shakeState' =
                  [shakeState EXCEPT !.intensity =
                       QMin(QAdd(c, QMul(Q(1, 2), r)), QMul(Z(2), r))]]_vars

\* shake({intensity: 5, duration: 50}) stacked on an ongoing shake of
\* intensity 20 and duration 200
C11_Witness ==
    /\ last.op = "shake"
    /\ last.options = [intensity |-> Z(5), duration |-> Z(50)]
    /\ shakeState.intensity = Z(10)
    /\ shakeState.duration = Z(200)

\* C12 as stated: with decay = 1, every update() that leaves the cumulative
\* elapsed time below the duration leaves the intensity I of the shake
\* exactly as it was, with both offsets within I, and the update() that
\* brings elapsed to the duration or beyond sets intensity and offsets to 0,
\* whatever the intensity I > 0 of the trigger.
C12_NoDecayAnyIntensity ==
    [][(/\ last'.op = "shakeUpdate"
        /\ shakeState.decay = One
        /\ QLt(Zero, shakeState.intensity)) =>
          IF QLt(QAdd(shakeState.elapsed, last'.dt), shakeState.duration)
          THEN /\ shakeState'.intensity = shakeState.intensity
               /\ QLe(QAbs(shakeState'.offsetX), shakeState.intensity)
               /\ QLe(QAbs(shakeState'.offsetY), shakeState.intensity)
          ELSE AtRest(shakeState')]_vars

\* C12: the same for a shake whose intensity is above the rest threshold
\* 0.1 (at or below it the first update() puts the shake to rest).
C12_NoDecay ==
    [][(/\ last'.op = "shakeUpdate"
        /\ shakeState.decay = One
        /\ QLt(RestThreshold, shakeState.intensity)) =>
          IF QLt(QAdd(shakeState.elapsed, last'.dt), shakeState.duration)
          THEN /\ shakeState'.intensity = shakeState.intensity
               /\ shakeState'.elapsed = QAdd(shakeState.elapsed, last'.dt)
               /\ QLe(QAbs(shakeState'.offsetX), shakeState.intensity)
               /\ QLe(QAbs(shakeState'.offsetY), shakeState.intensity)
          ELSE AtRest(shakeState')]_vars

\* intensity 10, duration 100, decay 1: update(50) has left 10
C12_Witness ==
    /\ last.op = "shakeUpdate"
    /\ last.dt = Z(50)
    /\ shakeState.decay = One
    /\ shakeState.duration = Z(100)
    /\ shakeState.elapsed = Z(50)
    /\ shakeState.intensity = Z(10)

(***************************************************************************)
(* Properties of the lifecycle and the game loop (checked under Spec).     *)
(***************************************************************************)
\* C6 as stated: while the lifecycle state is idle, paused or game_over the
\* frame callback does not run, so a step that starts and ends in one of
\* those states changes no particle and no shake field, for every
\* interleaving of a state change, its render and effect cleanup with an
\* animation frame already requested.
C6_NoFrameUnlessPlaying ==
    [][(state # PLAYING /\ state' # PLAYING)
         => /\ last'.op # "frame"
            /\ particles' = particles
            /\ shakeState' = shakeState]_vars

\* the transitions named by the lifecycle state machine
SixTransitions ==
    { <<IDLE, PLAYING>>, <<PLAYING, PAUSED>>, <<PAUSED, PLAYING>>,
      <<PLAYING, GAME_OVER>>, <<GAME_OVER, IDLE>>, <<GAME_OVER, PLAYING>> }

\* C7 as stated: the controls and the loop's end() calls only ever take the
\* lifecycle state along idle->playing, playing->paused, paused->playing,
\* playing->game_over, game_over->idle and game_over->playing.
C7_OnlySixTransitions ==
    [][state' # state => <<state, state'>> \in SixTransitions]_vars

\* C7: the controls and the loop's end() calls only ever take the lifecycle
\* state along the six transitions of the state machine or, by the Reset
\* button that GameControls shows in every state but idle, along
\* playing->idle and paused->idle.
C7_Transitions ==
    [][state' # state
         => <<state, state'>> \in
              SixTransitions \cup { <<PLAYING, IDLE>>, <<PAUSED, IDLE>> }]_vars

\* Reset was clicked while paused and the game is idle again
C7_Witness == last.op = "reset" /\ last.from = PAUSED /\ state = IDLE

\* C13: pause and resume leave the particle collection and the shake state
\* as they are, no frame callback runs while the state is paused (so both
\* are at resume exactly what they were at pause), and the only step other
\* than a frame that changes the particle collection is Start Game or Play
\* Again (resetGameState calling clear()).
C13_PauseResumeFreezes ==
    [][/\ (last'.op \in {"pause", "resume"} \/ state = PAUSED)
            => /\ last'.op # "frame"
               /\ particles' = particles
               /\ shakeState' = shakeState
       /\ (last'.op # "frame" /\ particles' # particles)
            => /\ last'.op \in {"start", "playAgain"}
               /\ particles' = << >>]_vars

\* Resume was clicked while paused, with particles alive and a shake going on
C13_Witness ==
    /\ last.op = "resume"
    /\ last.from = PAUSED
    /\ state = PLAYING
    /\ particles # << >>
    /\ QLt(RestThreshold, shakeState.intensity)
    /\ QLt(shakeState.elapsed, shakeState.duration)

\* the position of a phase in the trace of a frame (0 when it has not run)
Pos(t, phase) == IF \E i \in DOMAIN t : t[i] = phase
                 THEN CHOOSE i \in DOMAIN t : t[i] = phase ELSE 0

Times(t, phase) == Cardinality({i \in DOMAIN t : t[i] = phase})

\* C15 as stated: every frame callback invoked while the state is playing
\* runs each phase once: input, then entity update and spawning, then
\* collision resolution, then exactly one particles.update and one
\* shake.update, then rendering; the frame in which a collision ends the
\* game included.
C15_FullPhaseOrder ==
    [][(last'.op = "frame" /\ state = PLAYING) =>
          LET t == last'.trace
          IN  /\ \A ph \in {"input", "entities", "spawn", "collisions",
                            "particles.update", "shake.update", "render"} :
                     Times(t, ph) = 1
              /\ Pos(t, "input") < Pos(t, "entities")
              /\ Pos(t, "input") < Pos(t, "spawn")
              /\ Pos(t, "entities") < Pos(t, "collisions")
              /\ Pos(t, "spawn") < Pos(t, "collisions")
              /\ Pos(t, "collisions") < Pos(t, "particles.update")
              /\ Pos(t, "particles.update") < Pos(t, "shake.update")
              /\ Pos(t, "shake.update") < Pos(t, "render")]_vars

(***************************************************************************)
(* Messages to the parent frame.  The page is taken to be embedded         *)
(* (window.parent !== window), so that postMessage posts.                  *)
(***************************************************************************)
\* a message reduced to its type and, for SCORE_UPDATE, the score it carries
Shape(m) == [type |-> m.type, score |-> IF m.type = "SCORE_UPDATE" THEN m.score ELSE -1]

\* one message per operation called, in call order, running the score so far
RECURSIVE MessagesFor(_, _)
MessagesFor(calls, running) ==
    IF calls = << >> THEN << >>
    ELSE LET c == Head(calls)
             rest == Tail(calls)
         IN  CASE c.op = "play" ->
                    <<[type |-> "GAME_START", score |-> -1]>> \o MessagesFor(rest, 0)
               [] c.op = "pause" ->
                    <<[type |-> "GAME_PAUSE", score |-> -1]>> \o MessagesFor(rest, running)
               [] c.op = "resume" ->
                    <<[type |-> "GAME_RESUME", score |-> -1]>> \o MessagesFor(rest, running)
               [] c.op = "end" ->
                    <<[type |-> "GAME_OVER", score |-> -1]>> \o MessagesFor(rest, running)
               [] c.op = "addScore" ->
                    <<[type |-> "SCORE_UPDATE", score |-> running + c.points]>>
                    \o MessagesFor(rest, running + c.points)
               [] c.op = "reset" -> MessagesFor(rest, 0)

\* C17 (as stated): the messages posted so far are GAME_READY and then one
\* message per lifecycle operation called, of the matching type and in call
\* order (messages still to be posted may be missing at the end); a
\* SCORE_UPDATE carries the running score plus the points; reset posts nothing.
C17_MessagesInCallOrder ==
    LET want == <<[type |-> "GAME_READY", score |-> -1]>> \o MessagesFor(called, 0)
    IN  /\ Len(posted) <= Len(want)
        /\ \A i \in 1..Len(posted) : Shape(posted[i]) = want[i]

(***************************************************************************)
(* useGameState on its own: the operations called in any order, React      *)
(* rendering the queued updates at some later point.  An operation called  *)
(* before that render still sees the score and highScore of the latest     *)
(* render.                                                                 *)
(***************************************************************************)
MaxHookSteps == 4

\* localStorage 'highScore' as a previous session can have left it
SavedItems == {NoItem, 20}

\* the points of the addScore calls
HookPoints == {10, 30}

\* the results handed to end: with a score, with a score and a level (as
\* brick breaker's end({ score, level })), or without a score
HookResults == {[score |-> 10], [score |-> 30, level |-> 3], NoOptions}

\* parseInt(saved, 10) of the decimal digits toString() wrote for an integer
parseInt(item) == item

\* after mount: the effect has loaded the saved high score and posted GAME_READY
InitHook ==
    /\ particles = << >>
    /\ shakeState = ShakeInit
    /\ state = IDLE
    /\ score = 0
    /\ result = NoResult
    /\ storage \in SavedItems
    /\ highScore = IF storage # NoItem THEN parseInt(storage) ELSE 0
    /\ pending = << >>
    /\ posted = <<[type |-> "GAME_READY"]>>
    /\ called = << >>
    /\ loopLive = FALSE
    /\ player = PlayerInit
    /\ world = WorldInit
    /\ breaker = BreakerInit
    /\ pointer = PointerInit
    /\ game = "shooter"
    /\ template = TemplateInit
    /\ ctx = ContextInit
    /\ raf = RafInit
    /\ flappy = FlappyInit
    /\ last = Call("init", Zero, Zero, NoOptions, Zero)
    /\ steps = 0

\* an operation is called with effect fx; its updates wait for the render
HookCalled(op, points, fx) ==
    /\ pending' = pending \o fx.updates
    /\ posted' = posted \o fx.posted
    /\ storage' = fx.storage
    /\ called' = Append(called, Op(op, points))
    /\ last' = GameCall(op, Zero)
    /\ steps' = steps + 1
    /\ UNCHANGED <<game, template, particles, shakeState, state, score, result, highScore, loopLive,
                   player, world, breaker, pointer, ctx, raf, flappy>>

HookPlay ==
    /\ steps < MaxHookSteps
    /\ HookCalled("play", 0, play(storage))

HookReset ==
    /\ steps < MaxHookSteps
    /\ HookCalled("reset", 0, reset(storage))

HookAddScore(p) ==
    /\ steps < MaxHookSteps
    /\ HookCalled("addScore", p, addScore(p, storage))

HookEnd(gameResult) ==
    /\ steps < MaxHookSteps
    /\ HookCalled("end", 0, end(gameResult, score, highScore, storage))

\* React renders the queued updates
HookRender ==
    /\ steps < MaxHookSteps
    /\ RenderQueued

NextHook ==
    \/ HookPlay
    \/ HookReset
    \/ \E p \in HookPoints : HookAddScore(p)
    \/ \E gameResult \in HookResults : HookEnd(gameResult)
    \/ HookRender

SpecHook == InitHook /\ [][NextHook]_vars

\* the largest final score among the results queued by end calls, or low
RECURSIVE BestFinal(_, _)
BestFinal(queue, low) ==
    IF queue = << >> THEN low
    ELSE BestFinal(Tail(queue),
                   IF Head(queue).var = "result" /\ Head(queue).val # NoResult
                   THEN Max(low, Head(queue).val.score) ELSE low)

\* C18 (as stated): across play, addScore, end and reset calls highScore never
\* decreases; once the end calls are rendered highScore is the larger of the
\* previous highScore and the final scores; a reported result has
\* highScore >= score; the persisted value changes only in an end call, only
\* upwards, and then it is the high score of the result reported.
C18_HighScoreMonotone ==
    [][/\ highScore' >= highScore
       /\ last'.op = "render" => highScore' = BestFinal(pending, highScore)
       /\ last'.op = "end" =>
             LET msg == posted'[Len(posted')]
             IN  /\ msg.type = "GAME_OVER"
                 /\ msg.result.highScore >= msg.result.score
                 /\ storage' # storage => storage' = msg.result.highScore
       /\ storage' # storage => (last'.op = "end" /\ storage' > storage)]_vars

(***************************************************************************)
(* Brick breaker: frames of a game from Start Game on.                     *)
(***************************************************************************)
BreakerInput(deltaTime, mouseX, seed) ==
    [deltaTime |-> deltaTime, mouseX |-> mouseX, seed |-> seed]

\* the seeds of spawnBall: vx is -100, 0, 50 and -50
BreakerSeeds == 0 .. 3

\* frames after which the first ball is over the bricks of the two lowest
\* rows (1100 ms), further down by 160 px (400 ms), at the height of the
\* paddle (1200 ms, with the paddle under it and away from it), and beyond
\* the top or the bottom of the field (3000 ms), where the ball that comes
\* for a ball lost has any of the four velocities
BreakerInputs ==
    { BreakerInput(1100, 300, GameSeed), BreakerInput(400, 300, GameSeed),
      BreakerInput(1200, 300, GameSeed), BreakerInput(1200, 0, GameSeed) }
      \cup { BreakerInput(3000, 300, s) : s \in BreakerSeeds }

\* the frame callback over a sequence of frames that score nothing
RECURSIVE Broken(_, _)
Broken(h, ins) ==
    IF ins = << >> THEN h
    ELSE CHOOSE r \in { Broken(next, Tail(ins)) :
                           next \in {breakerFrame(h.breaker, h.particles, h.shakeState,
                                                 Head(ins), 0, 0, NoItem,
                                                 Head(ins).seed)} } : TRUE

\* Start Game and four frames of 3000 ms: two balls have gone to the top
\* and out at the bottom, and the third one is on the board (lives 1)
LastBall ==
    Broken(Breaking(resetBreaker(BreakerInit, << >>, GameSeed).breaker, << >>, ShakeInit,
                    Effect(<< >>, << >>, NoItem)),
           [i \in 1 .. 4 |-> BreakerInput(3000, 300, GameSeed)])

\* after Start Game: resetGameState(); play(), rendered, with the canvas
\* untouched; and such a game on its last ball, whose four frames have
\* drawn and left the fill style of the HUD
InitBreaker ==
    /\ \E g \in { Breaking(resetBreaker(BreakerInit, << >>, s).breaker, << >>, ShakeInit,
                            Effect(<< >>, << >>, NoItem)) : s \in BreakerSeeds }
                 \cup {LastBall} :
           /\ breaker = g.breaker
           /\ particles = g.particles
           /\ shakeState = g.shakeState
           /\ ctx = IF g = LastBall THEN breakerHud(ContextInit, g.breaker)
                    ELSE ContextInit
    /\ state = PLAYING
    /\ score = 0
    /\ result = NoResult
    /\ highScore = 0
    /\ pending = << >>
    /\ storage = NoItem
    /\ posted = <<[type |-> "GAME_READY"]>> \o play(NoItem).posted
    /\ called = <<Op("play", 0)>>
    /\ loopLive = TRUE
    /\ player = PlayerInit
    /\ world = WorldInit
    /\ pointer = PointerInit
    /\ game = "breaker"
    /\ template = TemplateInit
    /\ raf = RafInit
    /\ flappy = FlappyInit
    /\ last = Call("start", Zero, Zero, NoOptions, Zero)
    /\ steps = 0

\* an animation frame of brick breaker fires
BrickFrame(in) ==
    /\ steps < MaxBrickSteps
    /\ loopLive
    /\ \E r \in {breakerFrame(breaker, particles, shakeState, in, score, highScore,
                              storage, in.seed)} :
           /\ ctx' = IF r.ended THEN ctx ELSE breakerHud(ctx, r.breaker)
           /\ breaker' = r.breaker
           /\ particles' = r.particles
           /\ shakeState' = r.shakeState
           /\ pending' = pending \o r.effect.updates
           /\ posted' = posted \o r.effect.posted
           /\ called' = called \o CallsOf(r.effect.updates)
           /\ storage' = r.effect.storage
           /\ last' = [GameCall("frame", Z(in.deltaTime))
                         EXCEPT !.trace = r.trace, !.drawn = r.drawn]
    /\ steps' = steps + 1
    /\ UNCHANGED <<game, template, state, score, result, highScore, loopLive, player,
                   world, pointer, raf, flappy>>

\* Start Game and Play Again: handlePlay, lines 473-476, with its render and
\* effects; s is the seed of the ball resetGameState spawns
BrickPlay(b, s) ==
    /\ steps < MaxBrickSteps
    /\ b \in Buttons
    /\ PlayClicked
    /\ breaker' = resetBreaker(breaker, particles, s).breaker
    /\ particles' = resetBreaker(breaker, particles, s).particles
    /\ last' = GameCall(b, Zero)
    /\ steps' = steps + 1
    /\ UNCHANGED <<game, template, shakeState, player, world, pointer, ctx, raf, flappy>>

BrickPause ==
    /\ steps < MaxBrickSteps
    /\ ClickPause

BrickResume ==
    /\ steps < MaxBrickSteps
    /\ ClickResume

BrickReset ==
    /\ steps < MaxBrickSteps
    /\ ClickReset

\* React renders the updates the frames have queued
BrickRender ==
    /\ steps < MaxBrickSteps
    /\ RenderQueued

\* and runs the effects of that render
BrickFlush ==
    /\ steps < MaxBrickSteps
    /\ FlushEffects

NextBreaker ==
    \/ \E in \in BreakerInputs : BrickFrame(in)
    \/ \E b \in {"start", "playAgain"}, s \in BreakerSeeds : BrickPlay(b, s)
    \/ BrickPause
    \/ BrickResume
    \/ BrickReset
    \/ BrickRender
    \/ BrickFlush

SpecBreaker == InitBreaker /\ [][NextBreaker]_vars

\* the active bricks whose rectangle overlaps the bounding box of the ball
Overlapping(ball, bricks) ==
    { i \in 1 .. Len(bricks) :
        bricks[i].active /\ rectsCollide(ballRect(ball), brickRect(bricks[i])) }

\* C19: in a frame of brick breaker the brick check damages, for each ball,
\* only the first active brick in array order that overlaps the ball's
\* bounding box: its health goes down by one and the ball is reversed in one
\* direction; every other brick, overlapping or not, is left as it was, and a
\* ball that overlaps no active brick keeps its velocity.
C19_FirstBrickOnly ==
    [][last'.op = "frame" =>
         \A b \in 1 .. Len(breaker'.ballsIn) :
            LET ball == breaker'.ballsIn[b]
                out == breaker'.ballsOut[b]
                old == breaker.bricks
                new == breaker'.bricksOut
                over == Overlapping(ball, old)
            IN  IF over = {}
                THEN new = old /\ out = ball
                ELSE LET first == CHOOSE i \in over : \A j \in over : i <= j
                     IN  /\ new[first].health = old[first].health - 1
                         /\ \A j \in (1 .. Len(old)) \ {first} : new[j] = old[j]
                         /\ \/ out = [ball EXCEPT !.vx = QNeg(@)]
                            \/ out = [ball EXCEPT !.vy = QNeg(@)]]_vars

\* a frame in which the ball overlapped two active bricks: the earlier one
\* has lost health, the later one has not
C19_Witness ==
    /\ last.op = "frame"
    /\ Len(breaker.ballsIn) = 1
    /\ \E i, j \in 1 .. Len(breaker.bricksOut) :
          /\ i < j
          /\ rectsCollide(ballRect(breaker.ballsIn[1]), brickRect(breaker.bricksOut[i]))
          /\ rectsCollide(ballRect(breaker.ballsIn[1]), brickRect(breaker.bricksOut[j]))
          /\ breaker.bricksOut[i].health = initBricks[i].health - 1
          /\ breaker.bricksOut[j] = initBricks[j]
          /\ steps = 1

(***************************************************************************)
(* useMouse: pointer events, the clearing timeout, renders and frames in   *)
(* any order.                                                              *)
(***************************************************************************)
PointerStep(op, new) ==
    /\ pointer' = new
    /\ last' = GameCall(op, Zero)
    /\ steps' = steps + 1
    /\ UNCHANGED <<game, template, particles, shakeState, state, score, result, highScore, pending,
                   storage, posted, called, loopLive, player, world, breaker, ctx, raf, flappy>>

MouseDown ==
    /\ steps < MaxMouseSteps
    /\ PointerStep("mousedown", PointerEvent(pointer, "down"))

MouseUp ==
    /\ steps < MaxMouseSteps
    /\ PointerStep("mouseup", PointerEvent(pointer, "up"))

\* the 16 ms timeout of the flag-clearing effect fires
MouseTimeout ==
    /\ steps < MaxMouseSteps
    /\ pointer.timer
    /\ PointerStep("timeout", PointerTimeout(pointer))

MouseRendered ==
    /\ steps < MaxMouseSteps
    /\ pointer.queue # << >>
    /\ PointerStep("render", PointerRender(pointer))

\* React runs the effects of that render
MouseEffects ==
    /\ steps < MaxMouseSteps
    /\ pointer.effect
    /\ PointerStep("effects", PointerEffect(pointer))

\* an animation frame fires and its callback reads the flags
MouseFrame ==
    /\ steps < MaxMouseSteps
    /\ PointerStep("frame", PointerFrame(pointer))

NextMouse ==
    \/ MouseDown
    \/ MouseUp
    \/ MouseTimeout
    \/ MouseRendered
    \/ MouseEffects
    \/ MouseFrame

SpecMouse == Init /\ [][NextMouse]_vars

\* C20 (as stated): after a press (a release) exactly one frame callback reads
\* justPressed (justReleased) as true: never two, and one by the time the
\* flag is false again, whatever the order of events, timeout, renders and
\* frames.
C20_ExactlyOneFrame ==
    /\ pointer.seenPressed <= 1
    /\ pointer.seenReleased <= 1
    /\ (pointer.pressed /\ ~pointer.mouse.justPressed /\ pointer.queue = << >>)
          => pointer.seenPressed = 1
    /\ (pointer.released /\ ~pointer.mouse.justReleased /\ pointer.queue = << >>)
          => pointer.seenReleased = 1

\* C21 (as stated): in a frame of the space shooter no life is lost while the
\* player is invincible (invincible > 0 after the countdown of that frame), a
\* lost life sets invincible to 2000, and at most one life is lost in the
\* frame however many enemies overlap the player.
C21_OneLifePerFrame ==
    [][last'.op = "frame" =>
         LET counted == IF player.invincible > 0
                        THEN player.invincible - last'.dt.n ELSE player.invincible
         IN  /\ counted > 0 => player'.lives = player.lives
             /\ player'.lives < player.lives => player'.invincible = 2000
             /\ player'.lives >= player.lives - 1]_vars

\* C22: with decay in [0, 1], an update() never leaves the shake with a
\* larger intensity than it found, so that across consecutive update() calls
\* with no shake() in between the intensity never increases.
C22_UpdateNeverIncreases ==
    [][(/\ last'.op = "shakeUpdate"
        /\ QLe(Zero, shakeState.decay)
        /\ QLe(shakeState.decay, One))
       => QLe(shakeState'.intensity, shakeState.intensity)]_vars

\* two update() calls after shake() with the defaults: 10, 9, 8.1
C22_Witness ==
    /\ last.op = "shakeUpdate"
    /\ shakeState.decay = Q(9, 10)
    /\ shakeState.intensity = Q(81, 10)

(***************************************************************************)
(* The two effect hooks used side by side on one context: a collection of  *)
(* particles is alive while shakes are triggered, updated and applied and  *)
(* the particles are rendered and cleared.                                 *)
(***************************************************************************)
\* collections found by the calls: none, three particles 300 ms old, two
\* that neither fade nor shrink, and a fading particle ahead of one emitted
\* with a life of 0 and no colours, whose opacity and size are 0 / 0 and
\* whose colour is undefined.  Sizes are not negative: emit draws them
\* between sizeMin and sizeMax, which no caller in the repository passes
\* below 0.
EffectParticles ==
    { << >>,
      update(emit(<< >>, Z(8), Z(30),
                  [count |-> Z(3), colors |-> <<"#ffffff">>, friction |-> Q(1, 2)], 1),
             Z(300)),
      emit(<< >>, Z(5), Z(5),
           [count |-> Z(2), lifeVariance |-> Zero, fade |-> FALSE, shrink |-> FALSE], 0),
      emit(update(emit(<< >>, Z(8), Z(30), [count |-> Z(1), colors |-> <<"#ff4444">>], 1),
                  Z(300)),
           Z(5), Z(5),
           [count |-> Z(1), life |-> Zero, lifeVariance |-> Zero, colors |-> << >>], 0) }

InitEffects ==
    /\ particles \in EffectParticles
    /\ shakeState = ShakeInit
    /\ state = IDLE
    /\ score = 0
    /\ result = NoResult
    /\ highScore = 0
    /\ pending = << >>
    /\ storage = NoItem
    /\ posted = <<[type |-> "GAME_READY"]>>
    /\ called = << >>
    /\ loopLive = FALSE
    /\ player = PlayerInit
    /\ world = WorldInit
    /\ breaker = BreakerInit
    /\ pointer = PointerInit
    /\ game = "shooter"
    /\ template = TemplateInit
    /\ ctx = ContextInit
    /\ raf = RafInit
    /\ flappy = FlappyInit
    /\ last = Call("init", Zero, Zero, NoOptions, Zero)
    /\ steps = 0

\* particles.render(ctx)
PRender ==
    /\ steps < MaxShakeSteps
    /\ \E r \in {render(particles, ctx)} :
           /\ particles' = r.particles
           /\ ctx' = r.ctx
           /\ last' = [Made(Call("render", Zero, Zero, NoOptions, Zero), particles)
                         EXCEPT !.drawn = r.arcs]
    /\ steps' = steps + 1
    /\ UNCHANGED <<shakeState, gameVars, raf, flappy>>

\* shake.apply(ctx)
SApply ==
    /\ steps < MaxShakeSteps
    /\ ctx' = shakeApply(ctx, shakeState)
    /\ last' = Made(Call("apply", Zero, Zero, NoOptions, Zero), particles)
    /\ steps' = steps + 1
    /\ UNCHANGED <<particles, shakeState, gameVars, raf, flappy>>

EClear ==
    /\ steps < MaxShakeSteps
    /\ PClear

EShake(c) ==
    /\ steps < MaxShakeSteps
    /\ SShake(c)

EPreset(name) ==
    /\ steps < MaxShakeSteps
    /\ SPreset(name)

EUpdate(deltaTime, s) ==
    /\ steps < MaxShakeSteps
    /\ SUpdate(deltaTime, s)

NextEffects ==
    \/ PRender
    \/ SApply
    \/ EClear
    \/ \E c \in ShakeCalls : EShake(c)
    \/ \E name \in ShakePresets : EPreset(name)
    \/ \E d \in ShakeDeltas, s \in Seeds : EUpdate(d, s)

SpecEffects == InitEffects /\ [][NextEffects]_vars

ShakeOperations ==
    {"shake", "shakeSmall", "shakeMedium", "shakeLarge", "shakeUpdate", "apply"}

\* C23: render() leaves the collection and every field of every particle as
\* they were and hands the context back with globalAlpha 1; clear() leaves the
\* collection empty; no shake operation (shake, the presets, update, apply)
\* changes the collection.
C23_RenderClearShake ==
    [][/\ last'.op = "render" => /\ particles' = particles
                                 /\ ctx'.globalAlpha = One
       /\ last'.op = "clear" => particles' = << >>
       /\ last'.op \in ShakeOperations => particles' = particles]_vars

\* particles that fade were rendered below full opacity, and the context is
\* back at globalAlpha 1
C23_Witness ==
    /\ last.op = "render"
    /\ particles # << >>
    /\ \E i \in 1 .. Len(last.drawn) : QLt(last.drawn[i].alpha, One)
    /\ ctx.globalAlpha = One

PresetNames == {"trail", "explode", "sparkle"}

\* C24: called without a count, trail() adds exactly 1 particle (with gravity
\* 0), explode() exactly 30 and sparkle() exactly 5; an option the caller
\* passes overrides the value of the preset: the count passed is the number of
\* particles added, and the particles carry the colours, gravity and friction
\* passed.
C24_PresetCounts ==
    [][last'.op \in PresetNames =>
         LET o == last'.options
             before == Len(particles)
             added == Len(particles') - before
         IN  /\ SubSeq(particles', 1, before) = particles
             /\ added = IF "count" \in DOMAIN o THEN o.count.n
                        ELSE CASE last'.op = "trail" -> 1
                               [] last'.op = "explode" -> 30
                               [] last'.op = "sparkle" -> 5
             /\ \A i \in before + 1 .. Len(particles') :
                    /\ (last'.op = "trail" /\ "gravity" \notin DOMAIN o)
                          => particles'[i].gravity = Zero
                    /\ "gravity" \in DOMAIN o => particles'[i].gravity = o.gravity
                    /\ "friction" \in DOMAIN o => particles'[i].friction = o.friction
                    /\ "colors" \in DOMAIN o
                          => \E k \in 1 .. Len(o.colors) :
                                particles'[i].color = o.colors[k]]_vars

\* explode(x, y, {count: 15, colors}) has added exactly 15 particles
C24_Witness ==
    /\ last.op = "explode"
    /\ "count" \in DOMAIN last.options
    /\ last.options.count = Z(15)
    /\ Len(particles) = last.lenBefore + 15

\* the sum of the points of the addScore calls in calls[from .. to]
RECURSIVE PointsIn(_, _, _)
PointsIn(calls, from, to) ==
    IF from > to THEN 0
    ELSE (IF calls[from].op = "addScore" THEN calls[from].points ELSE 0)
         + PointsIn(calls, from + 1, to)

\* the points passed to addScore between the latest play() and the latest
\* end() after it
PointsOfSession(calls) ==
    LET ends == { i \in 1 .. Len(calls) : calls[i].op = "end" }
        last_end == CHOOSE i \in ends : \A j \in ends : j <= i
        plays == { i \in 1 .. last_end : calls[i].op = "play" }
        last_play == CHOOSE i \in plays : \A j \in plays : j <= i
    IN  PointsIn(calls, last_play + 1, last_end)

\* C25 (as stated): the score of the game-over result (the one set by the
\* latest end(), as React renders it) is the sum of the points passed to
\* addScore since the latest play(), points awarded earlier in the frame that
\* calls end({score}) included.
C25_ResultCarriesAllPoints ==
    LET now == Render(Committed, pending)
    IN  (/\ now.state = GAME_OVER
         /\ now.result # NoResult
         /\ \E i \in 1 .. Len(called) : called[i].op = "end")
        => now.result.score = PointsOfSession(called)

\* the GAME_OVER messages posted since the latest GAME_START
GameOversOfSession ==
    LET starts == { i \in 1 .. Len(posted) : posted[i].type = "GAME_START" }
        latest == CHOOSE i \in starts : \A j \in starts : j <= i
    IN  { i \in latest + 1 .. Len(posted) : posted[i].type = "GAME_OVER" }

\* C26 (as stated): between one GAME_START and the next at most one GAME_OVER
\* is posted, however the animation frame requested after the callback
\* returns interleaves with the render and the effect cleanup that end()
\* triggers.
C26_OneGameOverPerSession ==
    (\E i \in 1 .. Len(posted) : posted[i].type = "GAME_START")
        => Cardinality(GameOversOfSession) <= 1

(***************************************************************************)
(* Particles ageing: a bounded number of emit calls, and update called     *)
(* with a positive elapsed time again and again, as a running game loop    *)
(* does once per animation frame.  last.trace holds, for each particle of  *)
(* the collection, the time elapsed since its emit.                        *)
(***************************************************************************)
MaxAgingEmits == 3

\* three particles of the defaults, one whose caller passed gravity and
\* friction as undefined, two whose life can start at or below 0, and one
\* at rest whose caller passed life as undefined
AgingCalls ==
    { Call("emit", Z(40), Z(30), [count |-> Z(3)], Zero),
      Call("emit", Z(5), Z(5),
           [count |-> Z(1), life |-> Undefined, speedMin |-> Zero, speedMax |-> Zero,
            gravity |-> Zero], Zero),
      Call("emit", Z(5), Z(5),
           [count |-> Z(1), gravity |-> Undefined, friction |-> Undefined,
            lifeVariance |-> Zero], Zero),
      Seeded(Call("emit", Z(5), Z(5),
                  [count |-> Z(2), life |-> Z(100), lifeVariance |-> Z(200)], Zero), 1) }

AgingDeltas == { Z(200), Z(300), Z(600) }

InitAging == Init

AEmit(c) ==
    /\ steps < MaxAgingEmits
    /\ emitReturns(c.options)
    /\ particles' = emit(particles, c.x, c.y, c.options, c.seed)
    /\ last' = [Made(c, particles) EXCEPT
                  !.trace = last.trace \o [i \in 1 .. Len(particles') - Len(particles)
                                             |-> Zero]]
    /\ steps' = steps + 1
    /\ UNCHANGED <<shakeState, gameVars, ctx, raf, flappy>>

\* a time longer than the life any of the calls gives a particle (the
\* defaults: 500 + 200 ms); the time elapsed since an emit is counted up to it
AgeLimit == 1000

\* the ages of the particles the filter keeps, deltaTime later
RECURSIVE AgesKept(_, _, _)
AgesKept(ps, ages, deltaTime) ==
    IF ps = << >> THEN << >>
    ELSE (IF Survives(Head(ps), deltaTime)
          THEN <<QMin(QAdd(Head(ages), deltaTime), Z(AgeLimit))>> ELSE << >>)
         \o AgesKept(Tail(ps), Tail(ages), deltaTime)

AUpdate(deltaTime) ==
    /\ particles' = update(particles, deltaTime)
    /\ last' = [Made(Call("update", Zero, Zero, NoOptions, deltaTime), particles)
                  EXCEPT !.trace = AgesKept(particles, last.trace, deltaTime)]
    /\ UNCHANGED <<steps, shakeState, gameVars, ctx, raf, flappy>>

NextAging ==
    \/ \E c \in AgingCalls : AEmit(c)
    \/ \E d \in AgingDeltas : AUpdate(d)

\* The game loop calls update once per animation frame, for as long as it
\* runs: AUpdate has no guard.
SpecAging == InitAging /\ [][NextAging]_vars

\* C27: update(elapsedMs) gives a particle that survives, with
\* dt = elapsedMs / 1000: life - elapsedMs, vy1 = vy + gravity * dt,
\* vx' = vx * friction, vy' = vy1 * friction, x' = x + vx' * dt and
\* y' = y + vy' * dt (the position moves by the velocity already updated);
\* a missing gravity counts as 0 and a missing friction as 1.
C27_UpdateKinematics ==
    [][last'.op = "update" =>
         LET elapsedMs == last'.dt
             dt == QDiv(elapsedMs, Z(1000))
         IN  \A surviving \in {SelectSeq(particles,
                                         LAMBDA p : ~ QLe(QSub(p.life, elapsedMs), Zero))} :
             /\ Len(particles') = Len(surviving)
             /\ \A i \in 1 .. Len(surviving) :
                    LET p == surviving[i]
                        q == particles'[i]
                        gravity == IF p.gravity = Undefined THEN Zero ELSE p.gravity
                        friction == IF p.friction = Undefined THEN One ELSE p.friction
                        vy1 == TAddQ(p.vy, QMul(gravity, dt))
                    IN  /\ q.life = QSub(p.life, elapsedMs)
                        /\ q.vx = TScale(p.vx, friction)
                        /\ q.vy = TScale(vy1, friction)
                        /\ q.x = TAdd(p.x, TScale(q.vx, dt))
                        /\ q.y = TAdd(p.y, TScale(q.vy, dt))
                        /\ q.maxLife = p.maxLife /\ q.size = p.size
                        /\ q.color = p.color /\ q.gravity = p.gravity
                        /\ q.friction = p.friction]_vars

\* after update(300): a particle with gravity 200 and friction 0.98 that moves
\* sideways, next to one with neither gravity nor friction
C27_Witness ==
    /\ last.op = "update"
    /\ last.dt = Z(300)
    /\ \E i \in 1 .. Len(particles) :
          /\ particles[i].gravity = Z(200)
          /\ particles[i].friction = Q(49, 50)
          /\ particles[i].vx # T(Zero)
    /\ \E i \in 1 .. Len(particles) :
          /\ particles[i].gravity = Undefined
          /\ particles[i].friction = Undefined

\* C29: every emitted particle is removed in the end.  A particle still in
\* the collection after an update call has not been alive for its initial
\* life (it is gone by the first call at which the time elapsed since its
\* emit reaches that life), and no particle is still there AgeLimit ms after
\* its emit, so that under repeated update calls with a positive elapsed
\* time the collection is empty once the emits have stopped.
C29_ParticlesExpire ==
    [][last'.op = "update" =>
         /\ Len(last'.trace) = Len(particles')
         /\ \A i \in 1 .. Len(particles') :
                /\ ~ QLe(particles'[i].maxLife, last'.trace[i])
                /\ QLt(last'.trace[i], Z(AgeLimit))]_vars

(***************************************************************************)
(* A shake running out: a bounded number of triggers, and update called    *)
(* with a positive elapsed time once per animation frame for as long as    *)
(* the loop runs.  steps counts the triggers; last.trace holds the time    *)
(* elapsed since the latest trigger, counted until the shake is at rest.   *)
(***************************************************************************)
MaxTriggers == 2

RunDeltas == { Z(50), Z(60) }

SinceTrigger == IF last.trace = << >> THEN Zero ELSE last.trace[1]

RShake(c) ==
    /\ steps < MaxTriggers
    /\ shakeState' = shake(shakeState, c.options)
    /\ last' = [c EXCEPT !.trace = <<Zero>>]
    /\ steps' = steps + 1
    /\ UNCHANGED <<particles, gameVars, ctx, raf, flappy>>

RPreset(name) ==
    /\ steps < MaxTriggers
    /\ shakeState' = CASE name = "shakeSmall" -> shakeSmall(shakeState)
                       [] name = "shakeMedium" -> shakeMedium(shakeState)
                       [] name = "shakeLarge" -> shakeLarge(shakeState)
    /\ last' = [Call(name, Zero, Zero, NoOptions, Zero) EXCEPT !.trace = <<Zero>>]
    /\ steps' = steps + 1
    /\ UNCHANGED <<particles, gameVars, ctx, raf, flappy>>

RUpdate(deltaTime, s) ==
    /\ shakeState' = shakeUpdate(shakeState, deltaTime, s)
    /\ last' = [Call("shakeUpdate", Zero, Zero, NoOptions, deltaTime) EXCEPT
                  !.trace = <<IF shakeState.intensity = Zero THEN SinceTrigger
                              ELSE QAdd(SinceTrigger, deltaTime)>>]
    /\ UNCHANGED <<steps, particles, gameVars, ctx, raf, flappy>>

NextRun ==
    \/ \E c \in ShakeCalls : RShake(c)
    \/ \E name \in ShakePresets : RPreset(name)
    \/ \E d \in RunDeltas, s \in Seeds : RUpdate(d, s)

\* a step that is a call of the shake's update
ShakeUpdateCalled == last'.op = "shakeUpdate"

\* RUpdate has no guard and always changes last, so weak fairness of the
\* loop's update calls is the same as infinitely many of them.
SpecRun == Init /\ [][NextRun]_vars /\ []<><<ShakeUpdateCalled>>_vars

\* C28: after a trigger, with update called again and again with a positive
\* elapsed time and no further trigger, the intensity reaches 0: at the
\* latest in the call at which the time elapsed since the trigger reaches the
\* duration of the shake, and so after finitely many calls.
C28_ShakeRunsOut ==
    /\ [][last'.op = "shakeUpdate" =>
            (QLe(shakeState'.duration, last'.trace[1])
               => shakeState'.intensity = Zero)]_vars
    /\ \A n \in 1 .. MaxTriggers :
           (steps = n) ~> (shakeState.intensity = Zero \/ steps > n)

\* a shake without decay has been stopped by its duration running out
C28_Witness ==
    /\ last.op = "shakeUpdate"
    /\ steps > 0
    /\ shakeState.decay = One
    /\ shakeState.duration = Z(100)
    /\ SinceTrigger = Z(100)
    /\ shakeState.intensity = Zero

(***************************************************************************)
(* All seven operations of useGameState called in any order, React         *)
(* rendering the queued updates at some later point.  last.options holds   *)
(* the result handed to end.                                               *)
(***************************************************************************)
MaxOpsSteps == 4

OpCalled(op, points, options, fx) ==
    /\ pending' = pending \o fx.updates
    /\ posted' = posted \o fx.posted
    /\ storage' = fx.storage
    /\ called' = Append(called, Op(op, points))
    /\ last' = [GameCall(op, Zero) EXCEPT !.options = options]
    /\ steps' = steps + 1
    /\ UNCHANGED <<game, template, particles, shakeState, state, score, result, highScore, loopLive,
                   player, world, breaker, pointer, ctx, raf, flappy>>

OpPlay ==
    /\ steps < MaxOpsSteps
    /\ OpCalled("play", 0, NoOptions, play(storage))

OpPause ==
    /\ steps < MaxOpsSteps
    /\ OpCalled("pause", 0, NoOptions, pause(storage))

OpResume ==
    /\ steps < MaxOpsSteps
    /\ OpCalled("resume", 0, NoOptions, resume(storage))

OpReset ==
    /\ steps < MaxOpsSteps
    /\ OpCalled("reset", 0, NoOptions, reset(storage))

OpAddScore(p) ==
    /\ steps < MaxOpsSteps
    /\ OpCalled("addScore", p, NoOptions, addScore(p, storage))

OpEnd(gameResult) ==
    /\ steps < MaxOpsSteps
    /\ OpCalled("end", 0, gameResult, end(gameResult, score, highScore, storage))

OpRender ==
    /\ steps < MaxOpsSteps
    /\ RenderQueued

NextOps ==
    \/ OpPlay
    \/ OpPause
    \/ OpResume
    \/ OpReset
    \/ \E p \in HookPoints : OpAddScore(p)
    \/ \E gameResult \in HookResults : OpEnd(gameResult)
    \/ OpRender

SpecOps == InitHook /\ [][NextOps]_vars

\* C30: what each operation does to the hook's values, read at the render of
\* its updates: play() gives state playing, score 0 and no result; reset()
\* gives state idle, score 0 and no result; pause() and resume() change the
\* state (to paused, to playing) and nothing else; end(r) gives state
\* game_over and the result r with its score (r.score, or the running score,
\* which counts every addScore called so far, when r has none) and the high
\* score (the larger of that score and the hook's highScore).
C30_OperationEffects ==
    [][LET before == Render(Committed, pending)
           after == Render(Committed', pending')
           r == last'.options
           finalScore == IF "score" \in DOMAIN r THEN r.score ELSE before.score
       IN  /\ last'.op = "play"
               => after = [before EXCEPT !.state = PLAYING, !.score = 0,
                                         !.result = NoResult]
           /\ last'.op = "reset"
               => after = [before EXCEPT !.state = IDLE, !.score = 0,
                                         !.result = NoResult]
           /\ last'.op = "pause" => after = [before EXCEPT !.state = PAUSED]
           /\ last'.op = "resume" => after = [before EXCEPT !.state = PLAYING]
           /\ last'.op = "end"
               => /\ after.state = GAME_OVER
                  /\ after.score = before.score
                  /\ after.result =
                         Spread(r, [score |-> finalScore,
                                    highScore |-> Max(finalScore, highScore)])]_vars

(***************************************************************************)
(* SpecLoop: useGameLoop alone.  The component renders with `active` true  *)
(* or false, React runs the effect after the commit, the browser shows     *)
(* display frames, and time passes.                                        *)
(***************************************************************************)
MaxLoopSteps == 9

\* ms from the present to the callbacks of the next display frame, ms by
\* which the timestamp of a frame precedes its callbacks (the events and
\* effects the browser handles in a frame run after the frame has begun),
\* and ms that pass outside frames
FrameTimes == {16}
FrameLags == {0, 23}
IdleTimes == {500}

LoopStep(op, r) ==
    /\ raf' = r
    /\ last' = Call(op, Zero, Zero, NoOptions, Zero)
    /\ steps' = steps + 1
    /\ UNCHANGED <<particles, shakeState, gameVars, ctx, flappy>>

\* a commit in which `active` has changed; React runs the effects of a
\* commit before it renders again
LRender(b) ==
    /\ steps < MaxLoopSteps
    /\ raf.active = raf.ran
    /\ b # raf.active
    /\ LoopStep("render", [raf EXCEPT !.active = b])

\* the passive effects of that commit
LFlush ==
    /\ steps < MaxLoopSteps
    /\ raf.active # raf.ran
    /\ LoopStep("effect", flushLoopEffect(raf))

\* the callbacks of the next display frame run d ms after the present; the
\* frame began lag ms before that, after the frame before it
LFrame(d, lag) ==
    /\ steps < MaxLoopSteps
    /\ raf.requests # {}
    /\ raf.now + d - lag > raf.stamp
    /\ LoopStep("frame", animationFrame([raf EXCEPT !.now = @ + d], raf.now + d - lag))

\* time passes
LTick(d) ==
    /\ steps < MaxLoopSteps
    /\ LoopStep("tick", [raf EXCEPT !.now = @ + d])

NextLoop ==
    \/ \E b \in BOOLEAN : LRender(b)
    \/ LFlush
    \/ \E d \in FrameTimes, lag \in FrameLags : LFrame(d, lag)
    \/ \E d \in IdleTimes : LTick(d)

SpecLoop == Init /\ [][NextLoop]_vars

Callbacks(log) == {i \in 1..Len(log) : log[i].op = "callback"}

\* C31: whatever the activations and deactivations, at most one animation
\* frame request is pending, no display frame invokes the callback twice,
\* and every invocation has returned before the next frame is requested
\* (the request follows its invocation).
C31_OneChain ==
    /\ Cardinality(raf.requests) <= 1
    /\ \A i, j \in Callbacks(raf.log) :
           i # j => raf.log[i].frame # raf.log[j].frame
    /\ \A i \in Callbacks(raf.log) :
           /\ i < Len(raf.log)
           /\ raf.log[i + 1].op = "request"
           /\ raf.log[i + 1].inst = raf.log[i].inst

\* the loop was started, ran, was stopped and started again, and both runs
\* have invoked the callback
C31_Witness ==
    /\ Len(raf.closures) = 2
    /\ \E i, j \in Callbacks(raf.log) : raf.log[i].inst = 1 /\ raf.log[j].inst = 2
    /\ \E i \in 1..Len(raf.log) : raf.log[i].op = "cancel"


\* the requests made by the effect when it starts a loop (an activation)
Activations(log) ==
    {i \in 1..Len(log) : log[i].op = "request"
                           /\ (i = 1 \/ log[i - 1].op # "callback")}

\* the activation or invocation that precedes invocation i
Before(log, i) ==
    CHOOSE j \in (Callbacks(log) \cup Activations(log)) :
        /\ j < i
        /\ \A k \in (Callbacks(log) \cup Activations(log)) : k < i => k <= j

\* C32: the first delta passed to the frame callback after an activation of
\* the loop measures the time since that activation (it is not negative
\* and not more than the time that has passed since), and every later
\* delta is the time between two consecutive frames; time that passed
\* before the activation (a pause) is in no delta.
C32_DeltaSinceActivation ==
    \A i \in Callbacks(raf.log) :
        /\ \E j \in Activations(raf.log) : j < i
        /\ LET b == Before(raf.log, i)
           IN  IF b \in Activations(raf.log)
               THEN /\ raf.log[i].delta >= 0
                    /\ raf.log[i].delta <= raf.log[i].time - raf.log[b].time
               ELSE raf.log[i].delta = raf.log[i].stamp - raf.log[b].stamp

(***************************************************************************)
(* SpecReplay: the space shooter from a game on its last life, through the *)
(* end of that game and the start of the next one.                         *)
(***************************************************************************)
MaxReplaySteps == 4

\* the refs after the frames ins, for frames that neither score nor end the
\* game (so that the score of every render in between is 0)
RECURSIVE Played(_, _)
Played(g, ins) ==
    IF ins = << >> THEN g
    ELSE LET in == Head(ins)
         IN  Played(frame(g.particles, g.shakeState, g.player, g.world, in,
                          0, 0, NoItem, in.seed),
                    Tail(ins))

\* Start Game and two frames of 5000 ms: the enemy of each has hit the
\* player (lives 1, invincible 2000)
LastLife ==
    Played(Running(<< >>, ShakeInit, PlayerInit, WorldInit, Effect(<< >>, << >>, NoItem)),
           <<FrameInput(5000, {}, GameSeed), FrameInput(5000, {}, GameSeed)>>)

InitLastLife ==
    /\ \E g \in {LastLife} :
           /\ particles = g.particles
           /\ shakeState = g.shakeState
           /\ player = g.player
           /\ world = g.world
    /\ state = PLAYING
    /\ score = 0
    /\ result = NoResult
    /\ highScore = 0
    /\ pending = << >>
    /\ storage = NoItem
    /\ posted = <<[type |-> "GAME_READY"]>> \o play(NoItem).posted
    /\ called = <<Op("play", 0)>>
    /\ loopLive = TRUE
    /\ breaker = BreakerInit
    /\ pointer = PointerInit
    /\ game = "shooter"
    /\ template = TemplateInit
    /\ ctx = hudContext(ContextInit)
    /\ raf = RafInit
    /\ flappy = FlappyInit
    /\ last = Call("render", Zero, Zero, NoOptions, Zero)
    /\ steps = 0

\* frames after which an enemy is at y = 240 (1800 ms), then at y = 660 with
\* the next one at y = 390 (2800 ms), then on the player with the next one
\* on the bullet just fired (400 ms with Space, the enemy destroyed dropping
\* a power-up, a life or nothing); and the frame of 5000 ms
ReplayInputs ==
    { FrameInput(1800, {}, GameSeed),
      FrameInput(2800, {}, GameSeed),
      FrameInput(400, {"Space"}, GameSeed),
      FrameInput(400, {"Space"}, NoDropSeed),
      FrameInput(400, {"Space"}, LifeSeed),
      FrameInput(5000, {}, GameSeed) }


RpFrame(in) ==
    /\ steps < MaxReplaySteps
    /\ Frame(in)

RpRender ==
    /\ steps < MaxReplaySteps
    /\ RenderQueued

RpFlush ==
    /\ steps < MaxReplaySteps
    /\ FlushEffects

RpPlay(b) ==
    /\ steps < MaxReplaySteps
    /\ ClickPlay(b)

RpPause ==
    /\ steps < MaxReplaySteps
    /\ ClickPause

RpResume ==
    /\ steps < MaxReplaySteps
    /\ ClickResume

RpReset ==
    /\ steps < MaxReplaySteps
    /\ ClickReset

NextReplay ==
    \/ \E in \in ReplayInputs : RpFrame(in)
    \/ RpRender
    \/ RpFlush
    \/ \E b \in {"start", "playAgain"} : RpPlay(b)
    \/ RpPause
    \/ RpResume
    \/ RpReset

SpecReplay == InitLastLife /\ [][NextReplay]_vars

\* a game has ended: end was called
Ended == \E i \in 1 .. Len(called) : called[i].op = "end"

\* C33: play, pause, resume, reset and resetGameState leave the shake state
\* as it is, and when a game starts after one that ended in a frame that
\* called shakeLarge, the shake state is still the triggered one: intensity
\* 15 and elapsed 0.
C33_ShakeSurvivesLifecycle ==
    [][/\ last'.op \in {"start", "playAgain", "pause", "resume", "reset"}
           => shakeState' = shakeState
       /\ (last'.op \in {"start", "playAgain"} /\ Ended)
           => /\ shakeState'.intensity = Z(15)
              /\ shakeState'.elapsed = Zero]_vars


(***************************************************************************)
(* SpecField: the space shooter in a game in which two enemies have hit    *)
(* the player.  An enemy that hits the player is moved to y = -1000 and    *)
(* stays in the list; a bullet that hits an enemy is moved to y = -100 and *)
(* stays in the loop over the enemies.                                     *)
(***************************************************************************)
MaxFieldSteps == 4

\* Start Game and five frames, all with a basic enemy spawned in the
\* player's column (x = 300): the first enemy hits the player in the frame
\* of 5000 ms that spawns it and the second one in the third frame; the
\* player is out of the way of the third (KeyA) and back in the column
\* (KeyD).  The first enemy is then at y = 365 and the second at y = -385.
Stray ==
    Played(Running(<< >>, ShakeInit, PlayerInit, WorldInit, Effect(<< >>, << >>, NoItem)),
           <<FrameInput(5000, {}, GameSeed), FrameInput(3400, {}, GameSeed),
             FrameInput(1600, {}, GameSeed), FrameInput(3400, {"KeyA"}, GameSeed),
             FrameInput(700, {"KeyD"}, GameSeed)>>)

\* A frame of 1700 ms takes the two enemies to y = 620 and y = -130; the
\* bullet fired in a frame of 100 ms is at y = 640 at the end of it.
FieldInputs ==
    { FrameInput(1700, {}, GameSeed),
      FrameInput(100, {"Space"}, GameSeed),
      FrameInput(100, {}, NoDropSeed),
      FrameInput(800, {"Space"}, GameSeed) }

InitField ==
    /\ \E g \in {Stray} :
           /\ particles = g.particles
           /\ shakeState = g.shakeState
           /\ player = g.player
           /\ world = g.world
    /\ state = PLAYING
    /\ score = 0
    /\ result = NoResult
    /\ highScore = 0
    /\ pending = << >>
    /\ storage = NoItem
    /\ posted = <<[type |-> "GAME_READY"]>> \o play(NoItem).posted
    /\ called = <<Op("play", 0)>>
    /\ loopLive = TRUE
    /\ breaker = BreakerInit
    /\ pointer = PointerInit
    /\ game = "shooter"
    /\ template = TemplateInit
    /\ ctx = hudContext(ContextInit)
    /\ raf = RafInit
    /\ flappy = FlappyInit
    /\ last = Call("render", Zero, Zero, NoOptions, Zero)
    /\ steps = 0

FFrame(in) ==
    /\ steps < MaxFieldSteps
    /\ Frame(in)

FRender ==
    /\ steps < MaxFieldSteps
    /\ RenderQueued

NextField ==
    \/ \E in \in FieldInputs : FFrame(in)
    \/ FRender

SpecField == InitField /\ [][NextField]_vars

\* how often the check has damaged enemy id, and how often bullet id has
\* damaged an enemy
DamageTo(id) == Cardinality({k \in 1 .. Len(last.damage) : last.damage[k].enemy = id})
DamageBy(id) == Cardinality({k \in 1 .. Len(last.damage) : last.damage[k].bullet = id})
AwardsFor(id) == {k \in 1 .. Len(last.awards) : last.awards[k].enemy = id}

\* C34: in a frame of the space shooter a bullet damages at most one enemy;
\* an enemy whose health has reached 0 is paid for once, with 10 points for
\* a basic, 20 for a fast and 30 for a big one, and is no longer in the list
\* at the end of the frame; an enemy with health left is not paid for and
\* has lost one health per bullet that hit it.
C34_OneHitOneAward ==
    last.op = "frame" =>
        /\ \A i \in 1 .. Len(last.checked.bullets) :
               DamageBy(last.checked.bullets[i].id) <= 1
        /\ \A i \in 1 .. Len(last.checked.enemies) :
               LET e == last.checked.enemies[i]
               IN  IF e.health - DamageTo(e.id) <= 0
                   THEN /\ Cardinality(AwardsFor(e.id)) = 1
                        /\ \A k \in AwardsFor(e.id) :
                               last.awards[k].points =
                                   (CASE e.type = "basic" -> 10
                                      [] e.type = "fast" -> 20
                                      [] e.type = "big" -> 30)
                        /\ \A j \in 1 .. Len(world.enemies) : world.enemies[j].id # e.id
                   ELSE /\ AwardsFor(e.id) = {}
                        /\ \A j \in 1 .. Len(world.enemies) :
                               world.enemies[j].id = e.id
                                  => world.enemies[j].health = e.health - DamageTo(e.id)
        /\ Len(pending) >= Len(last.awards)

\* C35: in the space shooter the player's lives stay between 0 and 5 and the
\* power level between 1 and 3, in every reachable state.
C35_LivesAndPowerInRange ==
    /\ 0 <= player.lives
    /\ player.lives <= 5
    /\ 1 <= player.powerLevel
    /\ player.powerLevel <= 3


(***************************************************************************)
(* SpecFlappy: flappy bird from a game in play, with pipes ahead of the    *)
(* bird, through frames, the end of the game, reset and the next game.     *)
(***************************************************************************)
MaxFlappySteps == 4

\* the seed of the game: its first draw is 1/2, so that the gap of a pipe is
\* at 225..375
FlappySeed == 1

\* a seed whose first draw is 3/4: the gap of a pipe is at 287.5..437.5
LowGapSeed == 9

FlappyInput(deltaTime, jumpPressed) ==
    [deltaTime |-> deltaTime, jumpPressed |-> jumpPressed, seed |-> FlappySeed]

\* the frame callback over a sequence of frames, from the render of play()
RECURSIVE Flown(_, _)
Flown(g, ins) ==
    IF ins = << >> THEN g
    ELSE CHOOSE r \in { Flown(next, Tail(ins)) :
                           next \in {flappyFrame(g.flappy, g.particles, g.shakeState,
                                                 Head(ins), TRUE, 0, 0, NoItem,
                                                 Head(ins).seed)} } : TRUE

\* frames of 125 ms: a jump and three frames of falling
JumpFall3 ==
    <<FlappyInput(125, TRUE), FlappyInput(125, FALSE), FlappyInput(125, FALSE),
      FlappyInput(125, FALSE)>>

\* a jump and two frames of falling
JumpFall2 ==
    <<FlappyInput(125, TRUE), FlappyInput(125, FALSE), FlappyInput(125, FALSE)>>

\* Start Game and eight frames of 125 ms
TakeOff ==
    Flown(Flying(FlappyInit, << >>, ShakeInit, Effect(<< >>, << >>, NoItem)),
          JumpFall3 \o JumpFall3)

\* nine more, in the fourth of which the first pipe has come
Cruise == Flown(TakeOff, JumpFall2 \o JumpFall2 \o JumpFall2)

\* and eight more, 25 frames in all, in none of which the bird has hit
\* anything: the pipe of the twelfth frame is at x = 50 with the bird in its
\* gap, the pipe of the twenty-fourth is at x = 350
MidFlight ==
    Flown(Cruise,
          JumpFall2 \o JumpFall2 \o <<FlappyInput(125, TRUE), FlappyInput(125, FALSE)>>)

\* frames of 125 ms with and without jump input, and one of 2000 ms, with
\* the draws of FlappySeed and, for the particles of a jump and for the pipe
\* that comes in 2000 ms, with those of LowGapSeed
FlappyInputs ==
    { FlappyInput(125, b) : b \in BOOLEAN }
      \cup { FlappyInput(2000, FALSE) }
      \cup { [FlappyInput(125, TRUE) EXCEPT !.seed = LowGapSeed],
             [FlappyInput(2000, FALSE) EXCEPT !.seed = LowGapSeed] }

\* a game in play, after the frames of MidFlight
InitFlappy ==
    /\ \E m \in {MidFlight} :
           /\ particles = m.particles
           /\ shakeState = m.shakeState
           /\ flappy = m.flappy
    /\ state = PLAYING
    /\ score = 0
    /\ result = NoResult
    /\ highScore = 0
    /\ pending = << >>
    /\ storage = NoItem
    /\ posted = <<[type |-> "GAME_READY"]>> \o play(NoItem).posted
    /\ called = <<Op("play", 0)>>
    /\ loopLive = TRUE
    /\ player = PlayerInit
    /\ world = WorldInit
    /\ breaker = BreakerInit
    /\ pointer = PointerInit
    /\ game = "flappy"
    /\ template = TemplateInit
    /\ ctx = flappyHud(ContextInit)
    /\ raf = RafInit
    /\ last = Call("render", Zero, Zero, NoOptions, Zero)
    /\ steps = 0

\* an animation frame of the loop fires
BFrame(in) ==
    /\ steps < MaxFlappySteps
    /\ loopLive
    /\ \E r \in {flappyFrame(flappy, particles, shakeState, in, state = PLAYING,
                            score, highScore, storage, in.seed)} :
           /\ ctx' = IF r.ended THEN ctx ELSE flappyHud(ctx)
           /\ flappy' = r.flappy
           /\ particles' = r.particles
           /\ shakeState' = r.shakeState
           /\ pending' = pending \o r.effect.updates
           /\ posted' = posted \o r.effect.posted
           /\ called' = called \o CallsOf(r.effect.updates)
           /\ storage' = r.effect.storage
           /\ last' = [GameCall("frame", Z(in.deltaTime))
                         EXCEPT !.trace = r.trace, !.drawn = r.drawn]
    /\ steps' = steps + 1
    /\ UNCHANGED <<game, template, state, score, result, highScore, loopLive, player, world,
                   breaker, pointer, raf>>

\* Start Game and Play Again: handlePlay, lines 106-109, with its render
\* and effects: play() posts GAME_START, then the render runs the updaters
\* still queued, which post their SCORE_UPDATE
BPlay(b) ==
    /\ steps < MaxFlappySteps
    /\ b \in Buttons
    /\ LET now == Render(Committed, pending \o play(storage).updates)
       IN  /\ state' = now.state
           /\ score' = now.score
           /\ result' = now.result
           /\ highScore' = now.highScore
           /\ loopLive' = LoopEffect(now.state = PLAYING)
    /\ pending' = << >>
    /\ storage' = play(storage).storage
    /\ posted' = posted \o play(storage).posted \o ScoreMessages(Committed, pending)
    /\ called' = Append(called, Op("play", 0))
    /\ flappy' = flappyResetGameState(flappy, particles).flappy
    /\ particles' = flappyResetGameState(flappy, particles).particles
    /\ last' = GameCall(b, Zero)
    /\ steps' = steps + 1
    /\ UNCHANGED <<game, template, shakeState, player, world, breaker, pointer, ctx, raf>>

BPause ==
    /\ steps < MaxFlappySteps
    /\ ClickPause

BResume ==
    /\ steps < MaxFlappySteps
    /\ ClickResume

BReset ==
    /\ steps < MaxFlappySteps
    /\ ClickReset

BRender ==
    /\ steps < MaxFlappySteps
    /\ RenderQueued

BFlush ==
    /\ steps < MaxFlappySteps
    /\ FlushEffects

NextFlappy ==
    \/ \E in \in FlappyInputs : BFrame(in)
    \/ \E b \in {"start", "playAgain"} : BPlay(b)
    \/ BPause
    \/ BResume
    \/ BReset
    \/ BRender
    \/ BFlush

SpecFlappy == InitFlappy /\ [][NextFlappy]_vars

\* the jump input was active in the frame before frame i of the record
PressedBefore(i) == i > 1 /\ flappy.frames[i - 1].pressed

\* C36, as claimed, for the frames that run while the game is playing: a
\* frame jumps exactly when the jump input is active in it and was not
\* active in the frame before it.
C36_OneJumpPerPress ==
    \A i \in 1 .. Len(flappy.frames) :
        flappy.frames[i].playing =>
            (flappy.frames[i].jumped
                <=> (flappy.frames[i].pressed /\ ~PressedBefore(i)))

\* C36, amended: a frame jumps exactly when the jump input is active in it,
\* the hook's isPlaying is true in it, and the input was not active in the
\* frame before it or resetGameState has run since that frame.
C36_OneJumpPerPressPerGame ==
    \A i \in 1 .. Len(flappy.frames) :
        flappy.frames[i].jumped <=>
            /\ flappy.frames[i].pressed
            /\ flappy.frames[i].playing
            /\ (~PressedBefore(i) \/ flappy.frames[i].fresh)

\* the input stayed active over three frames of one game and the bird
\* jumped in the first of them only
C36_Witness ==
    \E n \in 3 .. Len(flappy.frames) :
        /\ \A i \in n - 2 .. n : flappy.frames[i].pressed /\ flappy.frames[i].playing
        /\ ~PressedBefore(n - 2)
        /\ ~flappy.frames[n - 1].fresh /\ ~flappy.frames[n].fresh
        /\ flappy.frames[n - 2].jumped
        /\ ~flappy.frames[n - 1].jumped /\ ~flappy.frames[n].jumped


\* how often addScore(1) was called for pipe id
PointsFor(id) ==
    Cardinality({k \in 1 .. Len(flappy.awards) : flappy.awards[k] = id})

\* the pipe's right edge is left of the bird's x
Behind(pipe) ==
    QLt(QAdd(pipe.x, Z(FlappyConfig.pipeWidth)), Z(FlappyConfig.birdX))

\* C37: after every frame a pipe whose right edge is left of the bird's x
\* has been paid for once and is marked as passed, a pipe that is not yet
\* there has not been paid for, and a pipe that the filter has removed was
\* paid for once: the point is given in the first frame in which the pipe
\* is behind the bird, and in no other.
C37_OnePointPerPipe ==
    /\ \A i \in 1 .. Len(flappy.pipes) :
           /\ flappy.pipes[i].passed <=> Behind(flappy.pipes[i])
           /\ PointsFor(flappy.pipes[i].id) = IF Behind(flappy.pipes[i]) THEN 1 ELSE 0
    /\ \A k \in 1 .. Len(flappy.removed) : PointsFor(flappy.removed[k]) = 1

\* a pipe went behind the bird in one frame, was still on screen after the
\* next one and has been paid for once
C37_Witness ==
    /\ \E i \in 1 .. Len(flappy.pipes) :
           /\ QLe(flappy.pipes[i].x, Z(-50))
           /\ flappy.pipes[i].passed
           /\ PointsFor(flappy.pipes[i].id) = 1
    /\ last.op = "frame"
    /\ \A k \in 1 .. Len(last.trace) : last.trace[k] \notin {"addScore", "end"}
    /\ \E u \in 1 .. Len(pending) : pending[u].var = "score" /\ pending[u].val = 1

(***************************************************************************)
(* SpecGames: each of the five game components in play, through frames,    *)
(* the end of the game (the templates have none), the lifecycle buttons    *)
(* and the next game.                                                      *)
(***************************************************************************)
MaxGamesSteps == 4

TemplateInput(deltaTime, keys, mouse, seed) ==
    [deltaTime |-> deltaTime, keys |-> keys, mouse |-> mouse, seed |-> seed]

MouseUpAt == [isDown |-> FALSE, x |-> 0, y |-> 0]

\* the seed whose draws are all 1/2: the target it spawns is in the middle
\* of the canvas
MiddleSeed == 43

\* The frames with which each game opens after Start Game.  Space shooter:
\* two frames of 5000 ms, the enemy of each has hit the player (lives 1).
\* Flappy bird: a jump and three frames of falling.  Brick breaker: four
\* frames of 3000 ms, in which two balls have gone to the top and out at the
\* bottom, and the third one is on the board (lives 1).  The template: a
\* frame with KeyA that takes the player to (67, 300) and spawns a target in
\* the middle of the canvas, 750 ms with no input, and 50 ms with no input,
\* in which the target that is due is spawned at (35, 300), 32 px from the
\* player, and collected.  The basic template: two frames, each of which
\* has spawned a target at (15, 300), with KeyA in the second one, which
\* takes the player to (55, 300).
ShooterOpening == <<FrameInput(5000, {}, GameSeed), FrameInput(5000, {}, GameSeed)>>
BirdOpening == JumpFall3
BricksOpening == [i \in 1 .. 4 |-> BreakerInput(3000, 300, GameSeed)]
TemplateOpening ==
    <<TemplateInput(1110, {"KeyA"}, MouseUpAt, MiddleSeed),
      TemplateInput(750, {}, MouseUpAt, MiddleSeed),
      TemplateInput(50, {}, MouseUpAt, GameSeed)>>
BasicOpening ==
    <<TemplateInput(1000, {}, MouseUpAt, GameSeed),
      TemplateInput(1150, {"KeyA"}, MouseUpAt, GameSeed)>>

Games == {"shooter", "flappy", "breaker", "template", "basic"}

Opening(name) ==
    CASE name = "shooter" -> ShooterOpening
      [] name = "flappy" -> BirdOpening
      [] name = "breaker" -> BricksOpening
      [] name = "template" -> TemplateOpening
      [] name = "basic" -> BasicOpening

\* A game component as mounted.  steps counts the steps after the opening:
\* it is below 0 until Start Game and the frames of the opening are done.
InitGames ==
    /\ game \in Games
    /\ particles = << >>
    /\ shakeState = ShakeInit
    /\ state = IDLE
    /\ score = 0
    /\ result = NoResult
    /\ highScore = 0
    /\ pending = << >>
    /\ storage = NoItem
    /\ posted = <<[type |-> "GAME_READY"]>>
    /\ called = << >>
    /\ loopLive = FALSE
    /\ player = PlayerInit
    /\ world = WorldInit
    /\ breaker = BreakerInit
    /\ pointer = PointerInit
    /\ template = TemplateInit
    /\ ctx = ContextInit
    /\ raf = RafInit
    /\ flappy = FlappyInit
    /\ last = Call("init", Zero, Zero, NoOptions, Zero)
    /\ steps = 0 - Len(Opening(game)) - 1

\* the inputs of the frame at hand: the next one of the opening, and any of
\* the game's after it
Turn(inputs) ==
    IF steps < 0
    THEN {Opening(game)[i] : i \in {Len(Opening(game)) + steps + 1} \cap DOMAIN Opening(game)}
    ELSE inputs

\* the frame that ends the game on its last life, and a frame with a shot
ShooterInputs ==
    { FrameInput(5000, {}, GameSeed), FrameInput(400, {"Space"}, GameSeed) }

\* a jump, and the frame of 2000 ms in which the bird falls to the ground
BirdInputs == { FlappyInput(125, TRUE), FlappyInput(2000, FALSE) }

\* the frames that take the ball to the bricks (two of them in a row make a
\* combo), and the frame of 3000 ms that takes it to the top and out
BrickInputs ==
    { BreakerInput(1100, 300, GameSeed), BreakerInput(400, 300, GameSeed),
      BreakerInput(3000, 300, GameSeed) }

\* The template: 750 ms with no input; 600 ms with KeyD, 180 px to the
\* right, which in two frames takes the player of the opening onto the
\* target in the middle; and 1000 ms towards the pointer, which is 300 px
\* to the right of that player and 400 px below.
TemplateInputs ==
    { TemplateInput(750, {}, MouseUpAt, MiddleSeed),
      TemplateInput(600, {"KeyD"}, MouseUpAt, MiddleSeed),
      TemplateInput(1000, {}, [isDown |-> TRUE, x |-> 367, y |-> 700], MiddleSeed) }

\* The basic template: 400 ms towards the targets with KeyA, and 1000 ms
\* towards the pointer
BasicInputs ==
    { TemplateInput(400, {"KeyA"}, MouseUpAt, GameSeed),
      TemplateInput(1000, {}, [isDown |-> TRUE, x |-> 355, y |-> 700], MiddleSeed) }

\* an animation frame of the template fires
TFrame(in) ==
    /\ steps < MaxGamesSteps
    /\ loopLive
    /\ \E r \in {templateFrame(template, particles, shakeState, in, state = PLAYING,
                              storage, in.seed)} :
           /\ ctx' = templateHud(ctx)
           /\ template' = r.template
           /\ particles' = r.particles
           /\ shakeState' = r.shakeState
           /\ pending' = pending \o r.effect.updates
           /\ posted' = posted \o r.effect.posted
           /\ called' = called \o CallsOf(r.effect.updates)
           /\ storage' = r.effect.storage
           /\ last' = [GameCall("frame", Z(in.deltaTime))
                         EXCEPT !.trace = r.trace, !.drawn = r.drawn]
    /\ steps' = steps + 1
    /\ UNCHANGED <<game, state, score, result, highScore, loopLive, player, world,
                   breaker, pointer, raf, flappy>>

\* an animation frame of the basic template fires
BasicFrame(in) ==
    /\ steps < MaxGamesSteps
    /\ loopLive
    /\ \E r \in {basicFrame(template, particles, shakeState, in, storage, in.seed)} :
           /\ ctx' = templateHud(ctx)
           /\ template' = r.template
           /\ pending' = pending \o r.effect.updates
           /\ posted' = posted \o r.effect.posted
           /\ called' = called \o CallsOf(r.effect.updates)
           /\ storage' = r.effect.storage
           /\ last' = [GameCall("frame", Z(in.deltaTime))
                         EXCEPT !.trace = r.trace, !.drawn = r.drawn]
    /\ steps' = steps + 1
    /\ UNCHANGED <<game, particles, shakeState, state, score, result, highScore,
                   loopLive, player, world, breaker, pointer, raf, flappy>>

\* Start Game and Play Again of the template: handlePlay, part_008 153-156
TPlay(b) ==
    /\ steps < MaxGamesSteps
    /\ b \in Buttons
    /\ PlayClicked
    /\ template' = templateResetGameState(template, particles).template
    /\ particles' = templateResetGameState(template, particles).particles
    /\ last' = GameCall(b, Zero)
    /\ steps' = steps + 1
    /\ UNCHANGED <<game, shakeState, player, world, breaker, pointer, ctx, raf, flappy>>

\* Start Game and Play Again of the basic template: handlePlay, part_009
\* 138-141
BasicPlay(b) ==
    /\ steps < MaxGamesSteps
    /\ b \in Buttons
    /\ PlayClicked
    /\ template' = basicResetGameState(template)
    /\ last' = GameCall(b, Zero)
    /\ steps' = steps + 1
    /\ UNCHANGED <<game, particles, shakeState, player, world, breaker, pointer, ctx,
                   raf, flappy>>

ShooterFrame(in) ==
    /\ steps < MaxGamesSteps
    /\ game = "shooter"
    /\ Frame(in)

ShooterPlay(b) ==
    /\ steps < MaxGamesSteps
    /\ game = "shooter"
    /\ ClickPlay(b)

BirdFrame(in) ==
    /\ steps < MaxGamesSteps
    /\ game = "flappy"
    /\ BFrame(in)

BirdPlay(b) ==
    /\ steps < MaxGamesSteps
    /\ game = "flappy"
    /\ BPlay(b)

BricksFrame(in) ==
    /\ steps < MaxGamesSteps
    /\ game = "breaker"
    /\ BrickFrame(in)

BricksPlay(b, s) ==
    /\ steps < MaxGamesSteps
    /\ game = "breaker"
    /\ BrickPlay(b, s)

TemplateFrame(in) ==
    /\ game = "template"
    /\ TFrame(in)

TemplatePlay(b) ==
    /\ game = "template"
    /\ TPlay(b)

BasicTemplateFrame(in) ==
    /\ game = "basic"
    /\ BasicFrame(in)

BasicTemplatePlay(b) ==
    /\ game = "basic"
    /\ BasicPlay(b)

GamesPause ==
    /\ 0 <= steps /\ steps < MaxGamesSteps
    /\ ClickPause

GamesResume ==
    /\ 0 <= steps /\ steps < MaxGamesSteps
    /\ ClickResume

GamesReset ==
    /\ 0 <= steps /\ steps < MaxGamesSteps
    /\ ClickReset

GamesRender ==
    /\ 0 <= steps /\ steps < MaxGamesSteps
    /\ RenderQueued

GamesFlush ==
    /\ 0 <= steps /\ steps < MaxGamesSteps
    /\ FlushEffects

NextGames ==
    \/ \E in \in Turn(ShooterInputs) : ShooterFrame(in)
    \/ \E b \in {"start", "playAgain"} : ShooterPlay(b)
    \/ \E in \in Turn(BirdInputs) : BirdFrame(in)
    \/ \E b \in {"start", "playAgain"} : BirdPlay(b)
    \/ \E in \in Turn(BrickInputs) : BricksFrame(in)
    \/ \E b \in {"start", "playAgain"} : BricksPlay(b, GameSeed)
    \/ \E in \in Turn(TemplateInputs) : TemplateFrame(in)
    \/ \E b \in {"start", "playAgain"} : TemplatePlay(b)
    \/ \E in \in Turn(BasicInputs) : BasicTemplateFrame(in)
    \/ \E b \in {"start", "playAgain"} : BasicTemplatePlay(b)
    \/ GamesPause
    \/ GamesResume
    \/ GamesReset
    \/ GamesRender
    \/ GamesFlush

SpecGames == InitGames /\ [][NextGames]_vars

\* the entities of the game name are in their initial configuration
\* (generateId's counter of the space shooter, a variable of the utils
\* module, runs on, and the one ball of brick breaker has any of the
\* sideways velocities spawnBall draws)
EntitiesInitial(name, pl, w, fl, br, t) ==
    /\ name = "shooter" =>
          /\ pl = PlayerInit
          /\ w = [WorldInit EXCEPT !.idCounter = w.idCounter]
    /\ name = "flappy" =>
          /\ fl.bird = BirdInit
          /\ fl.pipes = << >>
          /\ fl.lastPipeSpawn = 0
          /\ fl.justJumped = FALSE
    /\ name = "breaker" =>
          /\ br.lives = 3 /\ br.level = 1 /\ br.combo = 0
          /\ br.bricks = initBricks
          /\ br.paddle = PaddleInit
          /\ Len(br.balls) = 1
          /\ \E s \in BreakerSeeds : br.balls = spawnBall(<< >>, s)
    /\ name \in {"template", "basic"} => t = TemplateInit

\* C14: every step that takes the lifecycle to playing from game_over
\* (Play Again) or from idle (Start Game, which is how a game is started
\* again after Reset) leaves the entities of the game in their initial
\* configuration (space shooter: the player centred with 3 lives and power
\* 1, no bullets, enemies or powerups, timers 0; flappy bird: the bird
\* centred, no pipes; brick breaker: 3 lives, level 1, combo 0, the full
\* grid of bricks and exactly one ball; the templates: the player centred
\* and no targets) and the particle collection empty, and nothing changes
\* them before the first frame.
C14_ResetOnNewGame ==
    [][(state \in {GAME_OVER, IDLE} /\ state' = PLAYING)
         => /\ EntitiesInitial(game, player', world', flappy', breaker', template')
            /\ particles' = << >>
            /\ loopLive']_vars

\* Play Again was clicked on a finished game of brick breaker that had left
\* a broken grid of bricks, no lives and no ball behind
C14_Witness ==
    /\ game = "breaker"
    /\ last.op = "playAgain"
    /\ last.from = GAME_OVER
    /\ state = PLAYING
    /\ EntitiesInitial(game, player, world, flappy, breaker, template)
    /\ particles = << >>
    /\ \E i \in 1 .. Len(called) : called[i].op = "addScore"

HudItems == {"hud", "combo"}

\* the frame in last has run particles.update and shake.update before it
\* drew anything, has drawn the background, the world and the particles
\* inside the block of save() + shake.apply() and restore(), under the
\* shake offset, and has drawn the HUD after them, outside every block and
\* under no translation
DrawnAroundShake(t, d, sh) ==
    /\ 0 < Pos(t, "particles.update")
    /\ Pos(t, "particles.update") < Pos(t, "shake.update")
    /\ Pos(t, "shake.update") < Pos(t, "render")
    /\ \A i \in DOMAIN d :
          IF d[i].what \in HudItems
          THEN /\ d[i].depth = 0
               /\ d[i].tx = Zero /\ d[i].ty = Zero
               /\ \A j \in DOMAIN d : j > i => d[j].what \in HudItems
          ELSE /\ d[i].depth >= 1
               /\ d[i].depth = 1 => (d[i].tx = sh.offsetX /\ d[i].ty = sh.offsetY)
    /\ \E i \in DOMAIN d : d[i].what = "hud"
    /\ \E i \in DOMAIN d : d[i].what = "world"
    /\ \E i \in DOMAIN d : d[i].what = "particles"

\* C16, as claimed: in every frame that renders, of the three example games
\* and of the template games, particles.update and shake.update have run
\* before anything is drawn, the world and the particles are drawn between
\* save() + shake.apply() and restore(), and the HUD (score, lives, combo
\* text) is drawn only after restore(), under no translation.
C16_HudOutsideShake ==
    [][(last'.op = "frame" /\ last'.drawn # << >>)
         => DrawnAroundShake(last'.trace, last'.drawn, shakeState')]_vars

\* C16, amended: that holds in every frame that renders of the three
\* example games and of the template with effects; a frame of the basic
\* template, which uses neither particles nor screen shake, updates and
\* draws neither, and draws the world and the HUD outside any save() block
\* and under no translation.
C16_HudOutsideShakeWithEffects ==
    [][(last'.op = "frame" /\ last'.drawn # << >>)
         => IF game = "basic"
            THEN /\ Pos(last'.trace, "particles.update") = 0
                 /\ Pos(last'.trace, "shake.update") = 0
                 /\ \A i \in DOMAIN last'.drawn :
                       /\ last'.drawn[i].what # "particles"
                       /\ last'.drawn[i].depth = 0
                       /\ last'.drawn[i].tx = Zero /\ last'.drawn[i].ty = Zero
                 /\ particles' = particles /\ shakeState' = shakeState
            ELSE DrawnAroundShake(last'.trace, last'.drawn, shakeState')]_vars

\* a frame of the template has collected a target: the shake it has
\* triggered has an offset other than 0, under which the world was drawn,
\* and the HUD was drawn after restore()
C16_Witness ==
    /\ game = "template"
    /\ last.op = "frame"
    /\ 0 < Pos(last.trace, "addScore")
    /\ shakeState.offsetX # Zero
    /\ \E i \in DOMAIN last.drawn :
          /\ last.drawn[i].what = "world"
          /\ last.drawn[i].depth = 1
          /\ last.drawn[i].tx = shakeState.offsetX
    /\ \E i \in DOMAIN last.drawn :
          /\ last.drawn[i].what = "hud"
          /\ last.drawn[i].depth = 0
          /\ last.drawn[i].tx = Zero

====
